---------------------------- MODULE Spec2Model ----------------------------
(***************************************************************************)
(* PewPewCH32: the CH32V003 I2C bootloader (image validator, register      *)
(* protocol, flash driver) and the host-side application header generator. *)
(*                                                                         *)
(* Bytes are naturals 0..255.  A 32-bit word is the tuple of its four      *)
(* bytes in little-endian order, as it lies in flash; TLC's integers are   *)
(* 32-bit signed, so the words are never folded into one integer.          *)
(***************************************************************************)
EXTENDS Integers, Sequences, FiniteSets, TLC

VARIABLES
  flash,            \* flash contents: page index -> 64 bytes, pages equal to their default left out
  flash_locked,     \* FLASH->CTLR LOCK bit
  flash_per,        \* FLASH->CTLR PER bit (page-erase mode)
  flash_pg,         \* FLASH->CTLR PG bit (program mode)
  flash_bsy,        \* FLASH->STATR BSY bit
  pc,               \* position of the main program
  post_code,        \* bootloader main: post_code
  cmd,              \* bl_i2c_process_commands: local cmd
  cmd_src,          \* history: the index in posted of the bus event that cmd was read after
  bl_status,
  bl_error,
  page_buffer,
  page_index,
  page_addr,
  expected_crc,
  reg_addr,
  addr_received,
  tx_mode,
  pending_command,
  bus_phase,        \* the bus as the controller drives it: "idle", "write" or "read"
  bus_txns,         \* bus transactions started so far (bounded by MaxTxn)
  bus_bytes,        \* bytes read by the controller in the current transaction
  bus_read,         \* last byte the controller read: <<register, value>> or <<>>
  posted,           \* history of the bus: <<"cmd", byte, bl_status>> for a byte stored in pending_command,
                    \* <<"idle", 0, bl_status>> for a read of the status register that gave IDLE
  dispatched,       \* history: <<cmd, cmd_src>> of the commands handed to execute_command, in order
  flash0,           \* validator harness: flash before the mutation
  post0,            \* validator harness: validate_app result before the mutation
  mut,              \* validator harness: <<>> or <<address, new byte>> of the mutation applied
  ret,              \* flash-driver harness: the record of the last driver call
  sent,             \* register harness: the bytes of the write transaction under way or just ended
  crc_run,          \* CRC harness: a buffer, where it is cut, the CRC in one call and in two pieces
  erase_run,        \* erase harness: an image's type, load address and size, the sectors erased, the bytes written
  cycle,            \* selection harness: the catalog size, the first selection, the presses, the selections seen
  current_state,    \* StateMachine::current_state
  state_timer,      \* StateMachine::state_timer (ms since boot at the last setState)
  prev_state,       \* history: current_state before the last setState
  current_firmware_index,
  start_index,      \* programmer harness: the selection when the cycle under way left IDLE
  clock,            \* to_ms_since_boot(get_absolute_time())
  host_pc,          \* position of the programmer's main loop: "process", "input" or "sleep"
  host_in,          \* history of the cycle under way: what its last process() step in
                    \* CHECKING_TARGET or PROGRAMMING met
  host_calls        \* history: the calls that step made on rv_debug and wch_flash, in order

flashVars == <<flash, flash_locked, flash_per, flash_pg, flash_bsy>>
mainVars  == <<pc, post_code, cmd, cmd_src>>
i2cVars   == <<bl_status, bl_error, page_buffer, page_index, page_addr, expected_crc,
               reg_addr, addr_received, tx_mode, pending_command>>
busVars   == <<bus_phase, bus_txns, bus_bytes, bus_read, posted, dispatched>>
harnessVars == <<flash0, post0, mut, ret, sent, cycle, crc_run, erase_run>>
hostVars == <<current_state, state_timer, prev_state, current_firmware_index, start_index, clock, host_pc,
              host_in, host_calls>>
vars == <<flashVars, mainVars, i2cVars, busVars, harnessVars, hostVars>>

---------------------------------------------------------------------------
(* bl_protocol.h *)
BL_BOOTLOADER_SIZE == 3072
BL_BOOT_STATE_ADDR == 3072
BL_APP_HEADER_ADDR == 3136
BL_APP_CODE_ADDR   == 3200
BL_FLASH_END       == 16384
BL_APP_MAX_SIZE    == BL_FLASH_END - BL_APP_CODE_ADDR
BL_FLASH_PAGE_SIZE == 64

BL_APP_MAGIC        == <<87, 79, 77, 69>>      \* 0x454D4F57
BL_BOOT_STATE_MAGIC == <<84, 79, 79, 66>>      \* 0x424F4F54
ERASED_WORD         == <<255, 255, 255, 255>>  \* 0xFFFFFFFF
BL_STATE_UPDATE     == 1
BL_UPDATE_TRIGGER   == 170

REG_HW_TYPE   == 0
REG_FW_VER_MAJOR == 1
REG_FW_VER_MINOR == 2
REG_BL_VERSION == 240
REG_BL_STATUS == 241
REG_BL_ERROR  == 242
REG_BL_CMD    == 248
REG_BL_ADDR_L == 249
REG_BL_ADDR_H == 250
REG_BL_DATA   == 251
REG_BL_CRC_0  == 252
REG_BL_CRC_1  == 253
REG_BL_CRC_2  == 254
REG_BL_CRC_3  == 255
REG_APP_UPDATE_CMD == 225

BL_CMD_ERASE  == 1
BL_CMD_WRITE  == 2
BL_CMD_VERIFY == 3
BL_CMD_BOOT   == 4

BL_STATUS_IDLE    == 0
BL_STATUS_BUSY    == 1
BL_STATUS_SUCCESS == 64
BL_STATUS_ERROR   == 128

BL_ERR_NONE         == 0
BL_ERR_INVALID_CMD  == 1
BL_ERR_INVALID_ADDR == 2
BL_ERR_FLASH_ERASE  == 3
BL_ERR_FLASH_WRITE  == 4
BL_ERR_CRC_MISMATCH == 5
BL_ERR_APP_INVALID  == 6

BL_MODE_FLAG        == 128
BL_VERSION_MAJOR    == 1
BL_VERSION_MINOR    == 0
BL_PROTOCOL_VERSION == 1

(* bootloader main.c *)
POST_NO_APP         == 1
POST_INVALID_HEADER == 2
POST_CRC_MISMATCH   == 3

(* app_header_t field offsets (packed struct) *)
OFF_MAGIC        == 0
OFF_FW_VER_MAJOR == 4
OFF_FW_VER_MINOR == 5
OFF_BL_VER_MIN   == 6
OFF_HW_TYPE      == 7
OFF_APP_SIZE     == 8
OFF_APP_CRC32    == 12
OFF_ENTRY_POINT  == 16
OFF_HEADER_CRC32 == 20
HEADER_CRC_LEN   == 24

(* host side *)
FW_APP_HEADER_ADDR == 3136
FW_LOAD_ADDR_APP   == 3200
SECTOR_SIZE        == 1024

---------------------------------------------------------------------------
(* Bytes and 32-bit words *)
Byte == 0..255

RECURSIVE Xor8(_, _)
Xor8(a, b) == IF a = 0 THEN b
              ELSE IF b = 0 THEN a
              ELSE ((a + b) % 2) + 2 * Xor8(a \div 2, b \div 2)

RECURSIVE And8(_, _)
And8(a, b) == IF a = 0 \/ b = 0 THEN 0
              ELSE ((a % 2) * (b % 2)) + 2 * And8(a \div 2, b \div 2)

\* Xor8 and And8 tabulated once
XorTable == [a \in Byte |-> [b \in Byte |-> Xor8(a, b)]]
AndTable == [a \in Byte |-> [b \in Byte |-> And8(a, b)]]

Xor32(a, b) == <<XorTable[a[1]][b[1]], XorTable[a[2]][b[2]], XorTable[a[3]][b[3]], XorTable[a[4]][b[4]]>>

Shr1(c) == <<(c[1] \div 2) + (c[2] % 2) * 128,
             (c[2] \div 2) + (c[3] % 2) * 128,
             (c[3] \div 2) + (c[4] % 2) * 128,
             c[4] \div 2>>

\* the word of a value below 2^24 * 128 (addresses and sizes of this device)
U32(n) == <<n % 256, (n \div 256) % 256, (n \div 65536) % 256, n \div 16777216>>

\* w > n for a word w and a number n < 65536
U32Above(w, n) == w[3] # 0 \/ w[4] # 0 \/ w[1] + 256 * w[2] > n

\* the value of a word known to be below 65536
U32Low(w) == w[1] + 256 * w[2]

---------------------------------------------------------------------------
(* crc32.c (target) and crc32.h (host): the same code *)
CRC_POLY == <<32, 131, 184, 237>>     \* 0xEDB88320

\* for (i = 0; i < 8; i++) crc = (crc & 1) ? (crc >> 1) ^ 0xEDB88320 : crc >> 1
RECURSIVE crc32_bits(_, _)
crc32_bits(crc, i) ==
  IF i = 0 THEN crc
  ELSE LET next == IF crc[1] % 2 = 1 THEN Xor32(Shr1(crc), CRC_POLY) ELSE Shr1(crc)
       IN  IF next[1] \in Byte THEN crc32_bits(next, i - 1) ELSE next

crc32_byte(crc, byte) == crc32_bits(<<XorTable[crc[1]][byte], crc[2], crc[3], crc[4]>>, 8)

crc32_init == ERASED_WORD

\* while (len--) crc = crc32_byte(crc, *p++); each step's value is computed
\* before the next step starts (the test on next[1] makes TLC evaluate it)
RECURSIVE crc32_loop(_, _, _)
crc32_loop(crc, data, i) ==
  IF i > Len(data) THEN crc
  ELSE LET next == crc32_byte(crc, data[i])
       IN  IF next[1] \in Byte THEN crc32_loop(next, data, i + 1) ELSE next

\* an update that starts from the initial value whatever crc it is given
crc32_update_restart(crc, data) == crc32_loop(crc32_init, data, 1)

crc32_update(crc, data) == crc32_loop(crc, data, 1)

crc32_final(crc) == Xor32(crc, ERASED_WORD)

crc32(data) == crc32_final(crc32_update(crc32_init, data))

---------------------------------------------------------------------------
(* Flash as memory: 256 pages of 64 bytes.  The bootloader region holds    *)
(* the bootloader's own code; every other page is erased unless written.   *)
NumPages == BL_FLASH_END \div BL_FLASH_PAGE_SIZE
PageIdx  == 0..(NumPages - 1)

ErasedPage == [i \in 1..BL_FLASH_PAGE_SIZE |-> 255]
BootloaderPage(p) == [i \in 1..BL_FLASH_PAGE_SIZE |-> (p + i) % 251]
DefaultPage(p) == IF p * BL_FLASH_PAGE_SIZE < BL_BOOT_STATE_ADDR THEN BootloaderPage(p) ELSE ErasedPage

PageAt(f, p) == IF p \in DOMAIN f THEN f[p] ELSE DefaultPage(p)

\* the pages that differ from their default
Normalize(g) == [p \in {q \in DOMAIN g : g[q] # DefaultPage(q)} |-> g[p]]

SetPage(f, p, content) ==
  Normalize([q \in (DOMAIN f) \cup {p} |-> IF q = p THEN content ELSE f[q]])

FlashByte(f, a) == PageAt(f, a \div BL_FLASH_PAGE_SIZE)[(a % BL_FLASH_PAGE_SIZE) + 1]

FlashBytes(f, a, n) == [i \in 1..n |-> FlashByte(f, a + i - 1)]

FlashWord(f, a) == FlashBytes(f, a, 4)

PokeByte(f, a, b) ==
  SetPage(f, a \div BL_FLASH_PAGE_SIZE,
          [PageAt(f, a \div BL_FLASH_PAGE_SIZE) EXCEPT ![(a % BL_FLASH_PAGE_SIZE) + 1] = b])

EmptyFlash == [q \in {} |-> ErasedPage]

---------------------------------------------------------------------------
(* Bootloader: validate_app *)

\* a validator that reports a header CRC failure as an application CRC failure
validate_app_header_crc_as_app_crc(f) ==
  LET magic == FlashWord(f, BL_APP_HEADER_ADDR + OFF_MAGIC)
      entry == FlashWord(f, BL_APP_HEADER_ADDR + OFF_ENTRY_POINT)
      size  == FlashWord(f, BL_APP_HEADER_ADDR + OFF_APP_SIZE)
  IN  IF magic = ERASED_WORD THEN POST_NO_APP
      ELSE IF magic # BL_APP_MAGIC THEN POST_INVALID_HEADER
      ELSE IF entry # U32(BL_APP_CODE_ADDR) THEN POST_INVALID_HEADER
      ELSE IF size = U32(0) \/ U32Above(size, BL_APP_MAX_SIZE) THEN POST_INVALID_HEADER
      ELSE IF crc32(FlashBytes(f, BL_APP_HEADER_ADDR, HEADER_CRC_LEN))
                # FlashWord(f, BL_APP_HEADER_ADDR + OFF_HEADER_CRC32) THEN POST_CRC_MISMATCH
      ELSE IF crc32(FlashBytes(f, BL_APP_CODE_ADDR, U32Low(size)))
                # FlashWord(f, BL_APP_HEADER_ADDR + OFF_APP_CRC32) THEN POST_CRC_MISMATCH
      ELSE 0

\* a validator that leaves out the application CRC check
validate_app_no_app_crc(f) ==
  LET magic == FlashWord(f, BL_APP_HEADER_ADDR + OFF_MAGIC)
      entry == FlashWord(f, BL_APP_HEADER_ADDR + OFF_ENTRY_POINT)
      size  == FlashWord(f, BL_APP_HEADER_ADDR + OFF_APP_SIZE)
  IN  IF magic = ERASED_WORD THEN POST_NO_APP
      ELSE IF magic # BL_APP_MAGIC THEN POST_INVALID_HEADER
      ELSE IF entry # U32(BL_APP_CODE_ADDR) THEN POST_INVALID_HEADER
      ELSE IF size = U32(0) \/ U32Above(size, BL_APP_MAX_SIZE) THEN POST_INVALID_HEADER
      ELSE IF crc32(FlashBytes(f, BL_APP_HEADER_ADDR, HEADER_CRC_LEN))
                # FlashWord(f, BL_APP_HEADER_ADDR + OFF_HEADER_CRC32) THEN POST_INVALID_HEADER
      ELSE 0

\* a validator that compares the magic with the constant before it looks for
\* the erased pattern
validate_app_magic_first(f) ==
  LET magic == FlashWord(f, BL_APP_HEADER_ADDR + OFF_MAGIC)
      entry == FlashWord(f, BL_APP_HEADER_ADDR + OFF_ENTRY_POINT)
      size  == FlashWord(f, BL_APP_HEADER_ADDR + OFF_APP_SIZE)
  IN  IF magic # BL_APP_MAGIC THEN POST_INVALID_HEADER
      ELSE IF magic = ERASED_WORD THEN POST_NO_APP
      ELSE IF entry # U32(BL_APP_CODE_ADDR) THEN POST_INVALID_HEADER
      ELSE IF size = U32(0) \/ U32Above(size, BL_APP_MAX_SIZE) THEN POST_INVALID_HEADER
      ELSE IF crc32(FlashBytes(f, BL_APP_HEADER_ADDR, HEADER_CRC_LEN))
                # FlashWord(f, BL_APP_HEADER_ADDR + OFF_HEADER_CRC32) THEN POST_INVALID_HEADER
      ELSE IF crc32(FlashBytes(f, BL_APP_CODE_ADDR, U32Low(size)))
                # FlashWord(f, BL_APP_HEADER_ADDR + OFF_APP_CRC32) THEN POST_CRC_MISMATCH
      ELSE 0

validate_app(f) ==
  LET magic == FlashWord(f, BL_APP_HEADER_ADDR + OFF_MAGIC)
      entry == FlashWord(f, BL_APP_HEADER_ADDR + OFF_ENTRY_POINT)
      size  == FlashWord(f, BL_APP_HEADER_ADDR + OFF_APP_SIZE)
  IN  IF magic = ERASED_WORD THEN POST_NO_APP
      ELSE IF magic # BL_APP_MAGIC THEN POST_INVALID_HEADER
      ELSE IF entry # U32(BL_APP_CODE_ADDR) THEN POST_INVALID_HEADER
      ELSE IF size = U32(0) \/ U32Above(size, BL_APP_MAX_SIZE) THEN POST_INVALID_HEADER
      ELSE IF crc32(FlashBytes(f, BL_APP_HEADER_ADDR, HEADER_CRC_LEN))
                # FlashWord(f, BL_APP_HEADER_ADDR + OFF_HEADER_CRC32) THEN POST_INVALID_HEADER
      ELSE IF crc32(FlashBytes(f, BL_APP_CODE_ADDR, U32Low(size)))
                # FlashWord(f, BL_APP_HEADER_ADDR + OFF_APP_CRC32) THEN POST_CRC_MISMATCH
      ELSE 0

---------------------------------------------------------------------------
(* Host: StateMachine::programFirmware, the application-type path *)
\* the debug-transport flash driver: write_flash stores the bytes, wipe_sector
\* erases one 1024-byte sector
write_flash(f, a, data) ==
  LET touched == {(a + i - 1) \div BL_FLASH_PAGE_SIZE : i \in 1..Len(data)}
      Page(p) == [j \in 1..BL_FLASH_PAGE_SIZE |->
                    LET addr == p * BL_FLASH_PAGE_SIZE + j - 1
                    IN  IF addr >= a /\ addr < a + Len(data)
                        THEN data[addr - a + 1] ELSE PageAt(f, p)[j]]
  IN  Normalize([p \in (DOMAIN f) \cup touched |-> IF p \in touched THEN Page(p) ELSE f[p]])

ErasePages(f, pages) ==
  Normalize([p \in (DOMAIN f) \cup pages |-> IF p \in pages THEN ErasedPage ELSE f[p]])

wipe_sector(f, a) ==
  ErasePages(f, {(a \div BL_FLASH_PAGE_SIZE) + k : k \in 0..((SECTOR_SIZE \div BL_FLASH_PAGE_SIZE) - 1)})

RECURSIVE WipeSectors(_, _, _)
WipeSectors(f, sector, last) ==
  IF sector > last THEN f ELSE WipeSectors(wipe_sector(f, sector * SECTOR_SIZE), sector + 1, last)

Zeros(n) == [i \in 1..n |-> 0]

\* app_header_t after memset and the field assignments, header_crc32 still zero
HeaderFields(fw) ==
  BL_APP_MAGIC \o <<fw.version_major, fw.version_minor, 1, fw.hw_type>>
    \o U32(fw.size) \o crc32(fw.data) \o U32(fw.load_addr) \o Zeros(4) \o Zeros(40)

\* header.header_crc32 = crc32(&header, 24), computed while the field is zero
GenerateHeader(fw) ==
  LET h == HeaderFields(fw)
  IN  SubSeq(h, 1, OFF_HEADER_CRC32) \o crc32(SubSeq(h, 1, HEADER_CRC_LEN)) \o Zeros(40)

AlignedData(fw) ==
  fw.data \o [i \in 1..((4 - (fw.size % 4)) % 4) |-> 255]

programFirmware(f, fw) ==
  LET first_sector == FW_APP_HEADER_ADDR \div SECTOR_SIZE
      last_sector  == (fw.load_addr + fw.size - 1) \div SECTOR_SIZE
      erased       == WipeSectors(f, first_sector, last_sector)
      with_header  == write_flash(erased, FW_APP_HEADER_ADDR, GenerateHeader(fw))
  IN  write_flash(with_header, fw.load_addr, AlignedData(fw))

---------------------------------------------------------------------------
(* Bootloader: bl_flash.c.  The flash controller is the record             *)
(* [mem, locked, per, pg, bsy]; every driver function returns the          *)
(* controller it leaves, its return value ok, and what it did on the way:  *)
(* unlocks (key sequences that opened the lock), modes (PER or PG set),    *)
(* ops (erase operations started and words programmed).                    *)
(*                                                                         *)
(* What the hardware does is an input: each wait_for_flash ends "ready",   *)
(* "timeout" (BSY still set when the count runs out; the operation under   *)
(* way has not taken effect) or "wrprterr" (the write-protect error latch  *)
(* is set; the operation was refused), and the key sequence opens the lock *)
(* ("ok") or not ("fail").  While LOCK is set the controller ignores       *)
(* writes of PER, PG and STRT and programs nothing.                        *)
WaitOutcomes   == {"ready", "timeout", "wrprterr"}
UnlockOutcomes == {"ok", "fail"}

Hw == [mem |-> flash, locked |-> flash_locked, per |-> flash_per, pg |-> flash_pg, bsy |-> flash_bsy]

Ret(h, ok, unlocks, modes, ops) == [h |-> h, ok |-> ok, unlocks |-> unlocks, modes |-> modes, ops |-> ops]

bl_flash_unlock(h, ou) ==
  IF ~h.locked THEN Ret(h, 1, 0, 0, 0)
  ELSE IF ou = "ok" THEN Ret([h EXCEPT !.locked = FALSE], 1, 1, 0, 0)
  ELSE Ret(h, 0, 0, 0, 0)

bl_flash_lock(h) == [h EXCEPT !.locked = TRUE]

\* BSY can outlast the count only if it is set: an operation was started or
\* an earlier one is still under way
wait_for_flash(h, o) ==
  IF o = "timeout" /\ h.bsy THEN Ret(h, 0, 0, 0, 0)
  ELSE IF o = "wrprterr" THEN Ret([h EXCEPT !.bsy = FALSE], 0, 0, 0, 0)
  ELSE Ret([h EXCEPT !.bsy = FALSE], 1, 0, 0, 0)

\* a page erase that leaves PER set when the operation fails
bl_flash_erase_page_keeps_per(h, addr, o1, o2) ==
  IF addr % BL_FLASH_PAGE_SIZE # 0 THEN Ret(h, 0, 0, 0, 0)
  ELSE IF addr < BL_BOOT_STATE_ADDR THEN Ret(h, 0, 0, 0, 0)
  ELSE LET w1 == wait_for_flash(h, o1)
       IN  IF w1.ok = 0 THEN w1
           ELSE LET open == ~w1.h.locked
                    h2   == [w1.h EXCEPT !.per = open, !.bsy = open]
                    w2   == wait_for_flash(h2, o2)
                    done == open /\ w2.ok = 1
                    mem2 == IF done THEN ErasePages(h.mem, {addr \div BL_FLASH_PAGE_SIZE}) ELSE h.mem
                    n    == IF open THEN 1 ELSE 0
               IN  IF w2.ok = 0 THEN Ret(w2.h, 0, 0, n, n)
                   ELSE Ret([w2.h EXCEPT !.per = FALSE, !.mem = mem2], 1, 0, n, n)

bl_flash_erase_page(h, addr, o1, o2) ==
  IF addr % BL_FLASH_PAGE_SIZE # 0 THEN Ret(h, 0, 0, 0, 0)
  ELSE IF addr < BL_BOOT_STATE_ADDR THEN Ret(h, 0, 0, 0, 0)
  ELSE LET w1 == wait_for_flash(h, o1)
       IN  IF w1.ok = 0 THEN w1
           ELSE LET open == ~w1.h.locked
                    h2   == [w1.h EXCEPT !.per = open, !.bsy = open]
                    w2   == wait_for_flash(h2, o2)
                    done == open /\ w2.ok = 1
                    mem2 == IF done THEN ErasePages(h.mem, {addr \div BL_FLASH_PAGE_SIZE}) ELSE h.mem
                    n    == IF open THEN 1 ELSE 0
               IN  Ret([w2.h EXCEPT !.per = FALSE, !.mem = mem2], w2.ok, 0, n, n)

\* the pages bl_flash_erase_app walks over, in order: 0 .. NumAppPages - 1
FirstAppPage == BL_BOOT_STATE_ADDR \div BL_FLASH_PAGE_SIZE
NumAppPages  == (BL_FLASH_END - BL_BOOT_STATE_ADDR) \div BL_FLASH_PAGE_SIZE

\* an application erase whose loop starts at address 0 and erases without the
\* page erase's test
bl_flash_erase_app_from_zero(h, ou, k, o1, o2) ==
  LET u == bl_flash_unlock(h, ou)
  IN  IF u.ok = 0 THEN Ret(u.h, 0, 0, 0, 0)
      ELSE Ret(bl_flash_lock([u.h EXCEPT !.mem = ErasePages(u.h.mem, PageIdx), !.bsy = FALSE]),
               1, u.unlocks, NumPages, NumPages)

\* an application erase that returns from a failed page erase without
\* locking the controller again
bl_flash_erase_app_no_relock(h, ou, k, o1, o2) ==
  LET u == bl_flash_unlock(h, ou)
  IN  IF u.ok = 0 THEN Ret(u.h, 0, 0, 0, 0)
      ELSE LET before == {FirstAppPage + i : i \in 0..(k - 1)}
               h1 == IF k = 0 THEN u.h
                     ELSE [u.h EXCEPT !.mem = ErasePages(u.h.mem, before), !.bsy = FALSE]
               e  == bl_flash_erase_page(h1, (FirstAppPage + k) * BL_FLASH_PAGE_SIZE, o1, o2)
               all == {FirstAppPage + i : i \in 0..(NumAppPages - 1)}
           IN  IF k < NumAppPages /\ e.ok = 0
               THEN Ret(e.h, 0, u.unlocks, k + e.modes, k + e.ops)
               ELSE Ret(bl_flash_lock([u.h EXCEPT !.mem = ErasePages(u.h.mem, all), !.bsy = FALSE]),
                        1, u.unlocks, NumAppPages, NumAppPages)

\* the loop erases page after page; k is the number of pages erased before
\* the page whose erase ends with the outcomes o1, o2.  When that erase
\* succeeds as well the loop runs to the end.
bl_flash_erase_app(h, ou, k, o1, o2) ==
  LET u == bl_flash_unlock(h, ou)
  IN  IF u.ok = 0 THEN Ret(u.h, 0, 0, 0, 0)
      ELSE LET before == {FirstAppPage + i : i \in 0..(k - 1)}
               h1 == IF k = 0 THEN u.h
                     ELSE [u.h EXCEPT !.mem = ErasePages(u.h.mem, before), !.bsy = FALSE]
               e  == bl_flash_erase_page(h1, (FirstAppPage + k) * BL_FLASH_PAGE_SIZE, o1, o2)
               all == {FirstAppPage + i : i \in 0..(NumAppPages - 1)}
           IN  IF k < NumAppPages /\ e.ok = 0
               THEN Ret(bl_flash_lock(e.h), 0, u.unlocks, k + e.modes, k + e.ops)
               ELSE Ret(bl_flash_lock([u.h EXCEPT !.mem = ErasePages(u.h.mem, all), !.bsy = FALSE]),
                        1, u.unlocks, NumAppPages, NumAppPages)

\* programming can only clear bits: the cell holds old AND new afterwards
ProgramWords(mem, addr, data, n) ==
  LET p == addr \div BL_FLASH_PAGE_SIZE
  IN  SetPage(mem, p, [j \in 1..BL_FLASH_PAGE_SIZE |->
                         IF j <= 4 * n THEN AndTable[PageAt(mem, p)[j]][data[j]] ELSE PageAt(mem, p)[j]])

WordsPerPage == BL_FLASH_PAGE_SIZE \div 4

\* a page write that unlocks before it looks at the address
bl_flash_write_page_unlocks_first(h, addr, data, ou, o0, k, ok) ==
  LET u == bl_flash_unlock(h, ou)
  IN  IF u.ok = 0 THEN Ret(u.h, 0, 0, 0, 0)
      ELSE IF addr % BL_FLASH_PAGE_SIZE # 0 THEN Ret(u.h, 0, u.unlocks, 0, 0)
      ELSE IF addr < BL_BOOT_STATE_ADDR THEN Ret(u.h, 0, u.unlocks, 0, 0)
      ELSE IF addr >= BL_FLASH_END THEN Ret(u.h, 0, u.unlocks, 0, 0)
      ELSE LET w0 == wait_for_flash(u.h, o0)
           IN  IF w0.ok = 0 THEN Ret(bl_flash_lock(w0.h), 0, u.unlocks, 0, 0)
               ELSE LET fails == k < WordsPerPage /\ ok # "ready"
                        n   == IF fails THEN k ELSE WordsPerPage
                        h1  == [w0.h EXCEPT !.mem = ProgramWords(w0.h.mem, addr, data, n),
                                            !.bsy = (fails /\ ok = "timeout")]
                        h2  == bl_flash_lock(h1)
                    IN  IF fails THEN Ret(h2, 0, u.unlocks, 1, k + 1)
                        ELSE Ret(h2, IF FlashBytes(h2.mem, addr, BL_FLASH_PAGE_SIZE) = data THEN 1 ELSE 0,
                                 u.unlocks, 1, WordsPerPage)

\* k words are programmed before the word whose wait_for_flash ends with ok;
\* when that word is programmed as well the loop runs to the end
bl_flash_write_page(h, addr, data, ou, o0, k, ok) ==
  IF addr % BL_FLASH_PAGE_SIZE # 0 THEN Ret(h, 0, 0, 0, 0)
  ELSE IF addr < BL_BOOT_STATE_ADDR THEN Ret(h, 0, 0, 0, 0)
  ELSE IF addr >= BL_FLASH_END THEN Ret(h, 0, 0, 0, 0)
  ELSE LET u == bl_flash_unlock(h, ou)
       IN  IF u.ok = 0 THEN Ret(u.h, 0, 0, 0, 0)
           ELSE LET w0 == wait_for_flash(u.h, o0)
                IN  IF w0.ok = 0 THEN Ret(bl_flash_lock(w0.h), 0, u.unlocks, 0, 0)
                    ELSE LET fails == k < WordsPerPage /\ ok # "ready"
                             n   == IF fails THEN k ELSE WordsPerPage
                             h1  == [w0.h EXCEPT !.mem = ProgramWords(w0.h.mem, addr, data, n),
                                                 !.bsy = (fails /\ ok = "timeout")]
                             h2  == bl_flash_lock(h1)
                         IN  IF fails THEN Ret(h2, 0, u.unlocks, 1, k + 1)
                             ELSE Ret(h2, IF FlashBytes(h2.mem, addr, BL_FLASH_PAGE_SIZE) = data THEN 1 ELSE 0,
                                      u.unlocks, 1, WordsPerPage)

bl_flash_calculate_crc(mem, start_addr, size) == crc32(FlashBytes(mem, start_addr, size))

bl_flash_clear_boot_state(h, ou, o1, o2) ==
  LET u == bl_flash_unlock(h, ou)
  IN  IF u.ok = 0 THEN Ret(u.h, 0, 0, 0, 0)
      ELSE LET e == bl_flash_erase_page(u.h, BL_BOOT_STATE_ADDR, o1, o2)
           IN  Ret(bl_flash_lock(e.h), e.ok, u.unlocks, e.modes, e.ops)

---------------------------------------------------------------------------
(* Inputs of the validator checks.  An image is a short byte string; a     *)
(* header is "sealed" when its header_crc32 is the one value for which the *)
(* validator's fifth check passes.                                         *)
MaxImageLen == 2
ImageBytes  == {0, 90}
Images      == UNION {[1..n -> ImageBytes] : n \in 1..MaxImageLen}
HW_TYPE_X4  == 4

Firmware(img) ==
  [data |-> img, size |-> Len(img), load_addr |-> FW_LOAD_ADDR_APP,
   hw_type |-> HW_TYPE_X4, version_major |-> 1, version_minor |-> 0]

\* column i: the word s with crc-step32(s) xor s = bit i, so that the word
\* built below is the fixed point of check 5 for the header's first 20 bytes
SealColumns == <<
   <<232, 30, 71, 115>>, <<208, 61, 142, 230>>, <<225, 125, 109, 22>>, <<194, 251, 218, 44>>,
   <<132, 247, 181, 89>>, <<8, 239, 107, 179>>, <<81, 216, 166, 189>>, <<227, 182, 60, 160>>,
   <<135, 107, 8, 155>>, <<79, 209, 97, 237>>, <<223, 164, 178, 1>>, <<190, 73, 101, 3>>,
   <<124, 147, 202, 6>>, <<248, 38, 149, 13>>, <<240, 77, 42, 27>>, <<224, 155, 84, 54>>,
   <<192, 55, 169, 108>>, <<128, 111, 82, 217>>, <<65, 217, 213, 105>>, <<130, 178, 171, 211>>,
   <<69, 99, 38, 124>>, <<138, 198, 76, 248>>, <<85, 139, 232, 43>>, <<170, 22, 209, 87>>,
   <<84, 45, 162, 175>>, <<233, 92, 53, 132>>, <<147, 191, 27, 211>>, <<103, 121, 70, 125>>,
   <<206, 242, 140, 250>>, <<221, 227, 104, 46>>, <<186, 199, 209, 92>>, <<116, 143, 163, 185>> >>

BitOf(w, i) == (w[(i \div 8) + 1] \div (2 ^ (i % 8))) % 2

RECURSIVE SealSum(_, _, _)
SealSum(w, i, acc) ==
  IF i = 32 THEN acc
  ELSE SealSum(w, i + 1, IF BitOf(w, i) = 1 THEN Xor32(acc, SealColumns[i + 1]) ELSE acc)

SealedHeader(fw) ==
  LET h == HeaderFields(fw)
  IN  SubSeq(h, 1, OFF_HEADER_CRC32) \o SealSum(crc32(SubSeq(h, 1, HEADER_CRC_LEN)), 0, U32(0)) \o Zeros(40)

\* flash holding a sealed header and the image, as a bus controller can write it
SealedImage(fw) ==
  write_flash(write_flash(EmptyFlash, BL_APP_HEADER_ADDR, SealedHeader(fw)),
              BL_APP_CODE_ADDR, fw.data)

Firmwares == {Firmware(img) : img \in Images}
RefFirmware == Firmware(<<90>>)

\* the bytes of the four fields magic, app_size, entry_point, header_crc32
HeaderFieldOffsets ==
  UNION {{off, off + 1, off + 2, off + 3} :
           off \in {OFF_MAGIC, OFF_APP_SIZE, OFF_ENTRY_POINT, OFF_HEADER_CRC32}}
HeaderFieldAddrs == {BL_APP_HEADER_ADDR + off : off \in HeaderFieldOffsets}

\* the declared application region of the header in f, for a size below 65536
AppRegion(f) ==
  {BL_APP_CODE_ADDR + i : i \in 0..(U32Low(FlashWord(f, BL_APP_HEADER_ADDR + OFF_APP_SIZE)) - 1)}

\* a changed byte takes one of MutBytes or the byte the reference image has there
MutBytes == {0, 255}
MutValues(a) == MutBytes \cup {FlashByte(SealedImage(RefFirmware), a)}

\* drawn flash contents: erased, a sealed image, and each of these with one
\* byte of the header fields or the first application byte off
BaseInputs == {EmptyFlash} \cup {SealedImage(fw) : fw \in Firmwares}
ValidatorInputs ==
  BaseInputs \cup {PokeByte(f, a, b) : f \in BaseInputs,
                                       a \in HeaderFieldAddrs \cup {BL_APP_CODE_ADDR}, b \in MutBytes}

---------------------------------------------------------------------------
(* Initial values of the bootloader's RAM (the static initialisers) and of *)
(* the flash controller after reset.                                       *)
RamInit ==
  /\ bl_status = BL_STATUS_IDLE
  /\ bl_error = BL_ERR_NONE
  /\ page_buffer = Zeros(BL_FLASH_PAGE_SIZE)
  /\ page_index = 0
  /\ page_addr = 0
  /\ expected_crc = U32(0)
  /\ reg_addr = 0
  /\ addr_received = 0
  /\ tx_mode = 0
  /\ pending_command = 0
  /\ cmd = 0
  /\ cmd_src = 0
  /\ post_code = 0

FlashCtlInit ==
  /\ flash_locked = TRUE
  /\ flash_per = FALSE
  /\ flash_pg = FALSE
  /\ flash_bsy = FALSE

BusInit ==
  /\ bus_phase = "idle"
  /\ bus_txns = 0
  /\ bus_bytes = 0
  /\ bus_read = <<>>
  /\ posted = <<>>
  /\ dispatched = <<>>

NoCall ==
  [op |-> "none", below |-> FALSE, misaligned |-> FALSE, past_end |-> FALSE, ok |-> 0, unlocks |-> 0, modes |-> 0, ops |-> 0,
   locked0 |-> TRUE, bsy0 |-> FALSE, mem_kept |-> TRUE]

NoCrc == [data |-> <<>>, cut |-> 0, done |-> FALSE, whole |-> <<>>, parts |-> <<>>]
NoErase == [type |-> 0, load_addr |-> 0, size |-> 0, done |-> FALSE, erased |-> <<>>, written |-> {}]
NoPresses == [count |-> 0, start |-> 0, presses |-> 0, seen |-> {}]

HarnessInit ==
  /\ flash0 = EmptyFlash
  /\ post0 = 0
  /\ mut = <<>>
  /\ ret = NoCall
  /\ sent = <<>>
  /\ cycle = NoPresses
  /\ crc_run = NoCrc /\ erase_run = NoErase

---------------------------------------------------------------------------
(* Host programmer: StateMachine.h, StateMachine.cpp.  Times are in ms.    *)
(* The ms counter of the board is 32 bits wide and wraps; the counter here *)
(* wraps at ClockMod and advances in steps of 500 ms or 1000 ms, one step  *)
(* per pass of the main loop.                                              *)
STATE_IDLE             == 0
STATE_CHECKING_TARGET  == 1
STATE_PROGRAMMING      == 2
STATE_CYCLING_FIRMWARE == 3
STATE_SUCCESS          == 4
STATE_ERROR            == 5

HALT_TIMEOUT_MS  == 100
ERROR_DWELL_MS   == 2000
SUCCESS_DWELL_MS == 3000
INDEX_WIPE       == 0
INDEX_REBOOT     == 9
FW_TYPE_BOOT     == 0
FW_TYPE_APP      == 1

ClockMod  == 4000
TickSteps == {500, 1000}

\* a difference that does not wrap
Elapsed_no_wrap(now, since) == IF now >= since THEN now - since ELSE 0

\* now - state_timer in unsigned arithmetic
Elapsed(now, since) == (now + ClockMod - since) % ClockMod

NoCycle == [step |-> "none", sel |-> 0, halt_ok |-> TRUE, header_ok |-> TRUE, firmware_ok |-> TRUE,
            polls |-> <<>>, ok |-> FALSE]

\* the constructor: setState(STATE_IDLE), selection 0
HostInit ==
  /\ current_state = STATE_IDLE
  /\ state_timer = 0
  /\ prev_state = STATE_IDLE
  /\ current_firmware_index = 0
  /\ start_index = 0
  /\ clock = 0
  /\ host_pc = "process"
  /\ host_in = NoCycle
  /\ host_calls = <<>>

---------------------------------------------------------------------------
(* SpecValidate: the validator and the header generator on drawn inputs.   *)
(* A header is drawn, validated, one byte of it (or of the application) is *)
(* changed, and it is validated again; or the host programs an image into  *)
(* erased flash and the bootloader validates what the host wrote.          *)
InitValidate ==
  /\ flash \in ValidatorInputs
  /\ pc = "v_input"
  /\ RamInit /\ FlashCtlInit /\ BusInit /\ HarnessInit /\ HostInit

V_HostProgram ==
  /\ pc = "v_input"
  /\ flash = EmptyFlash
  /\ \E fw \in Firmwares : flash' = programFirmware(flash, fw)
  /\ pc' = "v_programmed"
  /\ UNCHANGED <<flash_locked, flash_per, flash_pg, flash_bsy,
                 post_code, cmd, cmd_src, i2cVars, busVars, harnessVars>>
  /\ UNCHANGED hostVars

V_Boot ==
  /\ pc = "v_programmed"
  /\ post_code' = validate_app(flash)
  /\ pc' = "v_booted"
  /\ UNCHANGED <<flashVars, cmd, cmd_src, i2cVars, busVars, harnessVars>>
  /\ UNCHANGED hostVars

V_ValidateOriginal ==
  /\ pc = "v_input"
  /\ post0' = validate_app(flash)
  /\ flash0' = flash
  /\ pc' = "v_checked"
  /\ UNCHANGED <<flashVars, post_code, cmd, cmd_src, i2cVars, busVars, mut, ret, sent, cycle, crc_run, erase_run>>
  /\ UNCHANGED hostVars

V_Mutate ==
  /\ pc = "v_checked"
  /\ \E a \in HeaderFieldAddrs \cup (IF post0 = 0 THEN AppRegion(flash) ELSE {}) :
       \E b \in MutValues(a) :
          /\ b # FlashByte(flash, a)
          /\ flash' = PokeByte(flash, a, b)
          /\ mut' = <<a, b>>
  /\ pc' = "v_mutated"
  /\ UNCHANGED <<flash_locked, flash_per, flash_pg, flash_bsy,
                 post_code, cmd, cmd_src, i2cVars, busVars, flash0, post0, ret, sent, cycle, crc_run, erase_run>>
  /\ UNCHANGED hostVars

V_Validate ==
  /\ pc = "v_mutated"
  /\ post_code' = validate_app(flash)
  /\ pc' = "v_done"
  /\ UNCHANGED <<flashVars, cmd, cmd_src, i2cVars, busVars, harnessVars>>
  /\ UNCHANGED hostVars

NextValidate == V_HostProgram \/ V_Boot \/ V_ValidateOriginal \/ V_Mutate \/ V_Validate

SpecValidate == InitValidate /\ [][NextValidate]_vars

---------------------------------------------------------------------------
(* SpecFlash: the flash driver called directly, in any order, with drawn   *)
(* addresses, page contents and hardware outcomes.  ret records the last   *)
(* call: its return value, what it did, and the controller before it.      *)
Call(op, addr, r) ==
  [op |-> op, below |-> (addr < BL_BOOT_STATE_ADDR), misaligned |-> (addr % BL_FLASH_PAGE_SIZE # 0),
   past_end |-> (addr >= BL_FLASH_END), ok |-> r.ok, unlocks |-> r.unlocks, modes |-> r.modes, ops |-> r.ops,
   locked0 |-> flash_locked, bsy0 |-> flash_bsy, mem_kept |-> (r.h.mem = flash)]

SetHw(h) ==
  /\ flash' = h.mem
  /\ flash_locked' = h.locked
  /\ flash_per' = h.per
  /\ flash_pg' = h.pg
  /\ flash_bsy' = h.bsy

\* addresses handed to the driver: the last bootloader page, a misaligned
\* address in it and one above it, the boot-state page and the header page
DriverAddrs == {BL_BOOT_STATE_ADDR - BL_FLASH_PAGE_SIZE, BL_BOOT_STATE_ADDR - 1,
                BL_BOOT_STATE_ADDR, BL_BOOT_STATE_ADDR + 1, BL_APP_HEADER_ADDR}

\* page contents handed to the driver
HeaderPage == SealedHeader(RefFirmware)
AppPage    == [j \in 1..BL_FLASH_PAGE_SIZE |-> IF j <= Len(RefFirmware.data) THEN RefFirmware.data[j] ELSE 255]
PageScripts == {HeaderPage, AppPage}

\* hardware outcomes of one page erase: <<first wait, second wait>>
EraseOutcomes == {<<"ready", "ready">>, <<"timeout", "ready">>, <<"wrprterr", "ready">>,
                  <<"ready", "timeout">>, <<"ready", "wrprterr">>}

\* hardware outcomes of one page write: <<unlock, first wait, words
\* programmed before the failing one, wait after that word>>
WriteOutcomes == {<<"ok", "ready", WordsPerPage, "ready">>, <<"fail", "ready", 0, "ready">>,
                  <<"ok", "timeout", 0, "ready">>, <<"ok", "wrprterr", 0, "ready">>,
                  <<"ok", "ready", 0, "timeout">>, <<"ok", "ready", 1, "wrprterr">>}

\* hardware outcomes of an application erase: <<unlock, pages erased before
\* the failing one, first wait, second wait>>
EraseAppOutcomes == {<<"ok", NumAppPages, "ready", "ready">>, <<"fail", 0, "ready", "ready">>,
                     <<"ok", 0, "wrprterr", "ready">>, <<"ok", 1, "ready", "timeout">>,
                     <<"ok", NumAppPages - 1, "ready", "wrprterr">>}

InitFlash ==
  /\ flash \in {EmptyFlash, SealedImage(RefFirmware)}
  /\ pc = "f_idle"
  /\ RamInit /\ FlashCtlInit /\ BusInit /\ HarnessInit /\ HostInit

FlashFrame == UNCHANGED <<mainVars, i2cVars, busVars, flash0, post0, mut, sent, cycle, crc_run, erase_run>>

F_Unlock ==
  /\ pc = "f_idle"
  /\ \E ou \in UnlockOutcomes :
       LET r == bl_flash_unlock(Hw, ou)
       IN  SetHw(r.h) /\ ret' = Call("unlock", 0, r)
  /\ FlashFrame
  /\ UNCHANGED hostVars

F_Lock ==
  /\ pc = "f_idle"
  /\ SetHw(bl_flash_lock(Hw))
  /\ ret' = Call("lock", 0, Ret(bl_flash_lock(Hw), 1, 0, 0, 0))
  /\ FlashFrame
  /\ UNCHANGED hostVars

F_ErasePage ==
  /\ pc = "f_idle"
  /\ \E addr \in DriverAddrs, o \in EraseOutcomes :
       LET r == bl_flash_erase_page(Hw, addr, o[1], o[2])
       IN  SetHw(r.h) /\ ret' = Call("erase_page", addr, r)
  /\ FlashFrame
  /\ UNCHANGED hostVars

F_EraseApp ==
  /\ pc = "f_idle"
  /\ \E o \in EraseAppOutcomes :
       LET r == bl_flash_erase_app(Hw, o[1], o[2], o[3], o[4])
       IN  SetHw(r.h) /\ ret' = Call("erase_app", BL_BOOT_STATE_ADDR, r)
  /\ FlashFrame
  /\ UNCHANGED hostVars

F_WritePage ==
  /\ pc = "f_idle"
  /\ \E addr \in DriverAddrs \cup {BL_FLASH_END}, data \in PageScripts, o \in WriteOutcomes :
       LET r == bl_flash_write_page(Hw, addr, data, o[1], o[2], o[3], o[4])
       IN  SetHw(r.h) /\ ret' = Call("write_page", addr, r)
  /\ FlashFrame
  /\ UNCHANGED hostVars

F_ClearBootState ==
  /\ pc = "f_idle"
  /\ \E ou \in UnlockOutcomes, o \in EraseOutcomes :
       LET r == bl_flash_clear_boot_state(Hw, ou, o[1], o[2])
       IN  SetHw(r.h) /\ ret' = Call("clear_boot_state", BL_BOOT_STATE_ADDR, r)
  /\ FlashFrame
  /\ UNCHANGED hostVars

NextFlash == F_Unlock \/ F_Lock \/ F_ErasePage \/ F_EraseApp \/ F_WritePage \/ F_ClearBootState

SpecFlash == InitFlash /\ [][NextFlash]_vars

---------------------------------------------------------------------------
(* Bootloader: bl_i2c.c *)
PAGE_BUFFER_SIZE == BL_FLASH_PAGE_SIZE

get_hw_type(f) ==
  IF FlashWord(f, BL_APP_HEADER_ADDR + OFF_MAGIC) = BL_APP_MAGIC
  THEN FlashByte(f, BL_APP_HEADER_ADDR + OFF_HW_TYPE) ELSE 0

read_register(reg) ==
  IF reg = REG_HW_TYPE THEN (get_hw_type(flash) % BL_MODE_FLAG) + BL_MODE_FLAG
  ELSE IF reg = REG_FW_VER_MAJOR THEN BL_VERSION_MAJOR
  ELSE IF reg = REG_FW_VER_MINOR THEN BL_VERSION_MINOR
  ELSE IF reg = REG_BL_VERSION THEN BL_PROTOCOL_VERSION
  ELSE IF reg = REG_BL_STATUS THEN bl_status
  ELSE IF reg = REG_BL_ERROR THEN bl_error
  ELSE IF reg = REG_BL_CRC_0 THEN expected_crc[1]
  ELSE IF reg = REG_BL_CRC_1 THEN expected_crc[2]
  ELSE IF reg = REG_BL_CRC_2 THEN expected_crc[3]
  ELSE IF reg = REG_BL_CRC_3 THEN expected_crc[4]
  ELSE 255

\* an address computation that rounds the page address down to a page
WriteAddr_rounds_down(pa) == BL_APP_HEADER_ADDR + (pa \div BL_FLASH_PAGE_SIZE) * BL_FLASH_PAGE_SIZE

\* uint32_t flash_addr = BL_APP_HEADER_ADDR + page_addr, page_addr a uint16_t
WriteAddr(pa) == BL_APP_HEADER_ADDR + pa

\* the outcome of one command: the controller it leaves, bl_status, bl_error.
\* The hardware's part is o: the outcomes of an application erase for ERASE,
\* of a page write for WRITE, and for VERIFY of a header whose app_size
\* reaches past the end of flash what the read outside the flash gives
\* ("match" or "differ").
Outcome(h, status, error) == [h |-> h, status |-> status, error |-> error]

execute_command(c, h, o) ==
  IF c = BL_CMD_ERASE THEN
    LET r == bl_flash_erase_app(h, o[1], o[2], o[3], o[4])
    IN  IF r.ok = 0 THEN Outcome(r.h, BL_STATUS_ERROR, BL_ERR_FLASH_ERASE)
        ELSE Outcome(r.h, BL_STATUS_SUCCESS, BL_ERR_NONE)
  ELSE IF c = BL_CMD_WRITE THEN
    LET flash_addr == WriteAddr(page_addr)
    IN  IF flash_addr < BL_APP_HEADER_ADDR \/ flash_addr >= BL_FLASH_END
           \/ flash_addr % BL_FLASH_PAGE_SIZE # 0
        THEN Outcome(h, BL_STATUS_ERROR, BL_ERR_INVALID_ADDR)
        ELSE LET r == bl_flash_write_page(h, flash_addr, page_buffer, o[1], o[2], o[3], o[4])
             IN  IF r.ok = 0 THEN Outcome(r.h, BL_STATUS_ERROR, BL_ERR_FLASH_WRITE)
                 ELSE Outcome(r.h, BL_STATUS_SUCCESS, BL_ERR_NONE)
  ELSE IF c = BL_CMD_VERIFY THEN
    LET size == FlashWord(h.mem, BL_APP_HEADER_ADDR + OFF_APP_SIZE)
    IN  IF FlashWord(h.mem, BL_APP_HEADER_ADDR + OFF_MAGIC) # BL_APP_MAGIC
        THEN Outcome(h, BL_STATUS_ERROR, BL_ERR_APP_INVALID)
        ELSE IF U32Above(size, BL_APP_MAX_SIZE)
        THEN IF o = "match" THEN Outcome(h, BL_STATUS_SUCCESS, BL_ERR_NONE)
             ELSE Outcome(h, BL_STATUS_ERROR, BL_ERR_CRC_MISMATCH)
        ELSE IF bl_flash_calculate_crc(h.mem, BL_APP_CODE_ADDR, U32Low(size)) # expected_crc
        THEN Outcome(h, BL_STATUS_ERROR, BL_ERR_CRC_MISMATCH)
        ELSE Outcome(h, BL_STATUS_SUCCESS, BL_ERR_NONE)
  ELSE IF c = BL_CMD_BOOT THEN Outcome(h, BL_STATUS_SUCCESS, BL_ERR_NONE)
  ELSE Outcome(h, BL_STATUS_ERROR, BL_ERR_INVALID_CMD)

\* the hardware outcomes a command can meet: all goes well, the lock does
\* not open, an operation is refused or does not end
CommandOutcomes(c) ==
  IF c = BL_CMD_ERASE
  THEN {<<"ok", NumAppPages, "ready", "ready">>, <<"fail", 0, "ready", "ready">>,
        <<"ok", 1, "ready", "timeout">>}
  ELSE IF c = BL_CMD_WRITE
  THEN {<<"ok", "ready", WordsPerPage, "ready">>, <<"fail", "ready", 0, "ready">>,
        <<"ok", "ready", 1, "wrprterr">>}
  ELSE IF c = BL_CMD_VERIFY THEN {"match", "differ", "fault"}
  ELSE {"none"}

\* VERIFY hands header->app_size to crc32 unchecked: with a size that goes
\* beyond the flash the byte loop reads addresses that hold no memory, and
\* what it reads there ("match", "differ") or whether the read traps
\* ("fault") is not determined by the code
VerifyOutOfRange(f) ==
  /\ FlashWord(f, BL_APP_HEADER_ADDR + OFF_MAGIC) = BL_APP_MAGIC
  /\ U32Above(FlashWord(f, BL_APP_HEADER_ADDR + OFF_APP_SIZE), BL_APP_MAX_SIZE)

---------------------------------------------------------------------------
(* Bootloader: main *)

\* a main loop that jumps on SUCCESS without validating
ShouldJump_on_success(status, f) == status = BL_STATUS_SUCCESS

\* if (bl_i2c_get_status() == BL_STATUS_SUCCESS) if (validate_app() == 0)
ShouldJump(status, f) == status = BL_STATUS_SUCCESS /\ validate_app(f) = 0

---------------------------------------------------------------------------
(* Application: bl_client.c *)
BootStateUpdate ==
  BL_BOOT_STATE_MAGIC \o <<BL_STATE_UPDATE>> \o [i \in 1..(BL_FLASH_PAGE_SIZE - 5) |-> 255]

\* erase the boot-state page, then program the 16 words of the state
write_boot_state_update(f) ==
  ProgramWords(ErasePages(f, {BL_BOOT_STATE_ADDR \div BL_FLASH_PAGE_SIZE}),
               BL_BOOT_STATE_ADDR, BootStateUpdate, WordsPerPage)

\* the boot-state page asks for update mode
UpdateRequested(f) ==
  /\ FlashWord(f, BL_BOOT_STATE_ADDR) = BL_BOOT_STATE_MAGIC
  /\ FlashByte(f, BL_BOOT_STATE_ADDR + 4) = BL_STATE_UPDATE

---------------------------------------------------------------------------
(* Spec: the bootloader from reset.  The main program runs step by step;   *)
(* while it is in update mode the I2C interrupt handlers run between its   *)
(* steps, one invocation per bus event.  The bus controller starts at most *)
(* MaxTxn transactions and reads at most MaxReadLen bytes in one.          *)
MaxTxn     == 2
MaxReadLen == 2

\* an application without its header, as an interrupted update leaves it
HeaderlessImage == write_flash(EmptyFlash, BL_APP_CODE_ADDR, RefFirmware.data)

\* an image whose header declares a size beyond the flash
OversizeImage == PokeByte(SealedImage(RefFirmware), BL_APP_HEADER_ADDR + OFF_APP_SIZE + 3, 255)

BootInputs == {SealedImage(RefFirmware), HeaderlessImage, programFirmware(EmptyFlash, RefFirmware),
               OversizeImage}

\* what the controller sends: register pointers, and per register the bytes
BL_CMD_UNKNOWN == 5
RegPointers == {REG_BL_CMD, REG_BL_ADDR_L, REG_BL_ADDR_H, REG_BL_DATA, REG_BL_STATUS}
DataMenu(reg) ==
  IF reg = REG_BL_CMD THEN {BL_CMD_ERASE, BL_CMD_WRITE, BL_CMD_VERIFY, BL_CMD_BOOT, BL_CMD_UNKNOWN, 0}
  ELSE IF reg = REG_BL_ADDR_L THEN {1, BL_FLASH_PAGE_SIZE}
  ELSE IF reg = REG_BL_ADDR_H THEN {255}
  ELSE IF reg = REG_BL_DATA THEN
    IF page_index >= PAGE_BUFFER_SIZE THEN {0}
    ELSE {s[page_index + 1] : s \in {t \in PageScripts :
                                       \A j \in 1..page_index : t[j] = page_buffer[j]}}
  ELSE {0}

\* a register write carries one byte; page data comes as a whole page, or a
\* page and one byte more, and it comes while the bootloader has no command
\* pending or under way
DataStopPoints == {0, PAGE_BUFFER_SIZE, PAGE_BUFFER_SIZE + 1}

\* the index in the bus history of the last byte stored in pending_command
LastPost(log) ==
  IF \A i \in 1..Len(log) : log[i][1] # "cmd" THEN 0
  ELSE CHOOSE i \in 1..Len(log) : log[i][1] = "cmd" /\ \A j \in (i + 1)..Len(log) : log[j][1] # "cmd"

UpdateModePcs == {"loop", "read", "clear", "exec", "clrerr", "busy", "result", "status", "delay"}

Init ==
  /\ flash \in BootInputs
  /\ pc = "boot"
  /\ RamInit /\ FlashCtlInit /\ BusInit /\ HarnessInit /\ HostInit

\* main: post_code = validate_app(); if (post_code == 0) jump_to_app();
\* bl_flash_init(); bl_i2c_init();
Boot ==
  /\ pc = "boot"
  /\ post_code' = validate_app(flash)
  /\ pc' = IF validate_app(flash) = 0 THEN "app" ELSE "loop"
  /\ flash_locked' = TRUE
  /\ UNCHANGED <<flash, flash_per, flash_pg, flash_bsy, cmd, cmd_src, i2cVars, busVars, harnessVars>>
  /\ UNCHANGED hostVars

\* bl_i2c_process_commands with nothing pending, and the status test after it
ProcessCommands_None ==
  /\ pc = "loop"
  /\ pending_command = 0
  /\ pc' = IF ShouldJump(bl_status, flash) THEN "delay" ELSE "loop"
  /\ UNCHANGED <<flashVars, post_code, cmd, cmd_src, i2cVars, busVars, harnessVars>>
  /\ UNCHANGED hostVars

\* a main loop that dispatches whatever the command register holds
ProcessCommands_Test_unconditional ==
  /\ pc = "loop"
  /\ pc' = "read"
  /\ UNCHANGED <<flashVars, post_code, cmd, cmd_src, i2cVars, busVars, harnessVars>>
  /\ UNCHANGED hostVars

\* if (pending_command)
ProcessCommands_Test ==
  /\ pc = "loop"
  /\ pending_command # 0
  /\ pc' = "read"
  /\ UNCHANGED <<flashVars, post_code, cmd, cmd_src, i2cVars, busVars, harnessVars>>
  /\ UNCHANGED hostVars

\* uint8_t cmd = pending_command;
ProcessCommands_Read ==
  /\ pc = "read"
  /\ cmd' = pending_command
  /\ cmd_src' = LastPost(posted)
  /\ pc' = "clear"
  /\ UNCHANGED <<flashVars, post_code, i2cVars, busVars, harnessVars>>
  /\ UNCHANGED hostVars

\* pending_command = 0;
ProcessCommands_Clear ==
  /\ pc = "clear"
  /\ pending_command' = 0
  /\ pc' = "exec"
  /\ UNCHANGED <<flashVars, post_code, cmd, cmd_src, bl_status, bl_error, page_buffer, page_index,
                 page_addr, expected_crc, reg_addr, addr_received, tx_mode, busVars, harnessVars>>
  /\ UNCHANGED hostVars

\* an execute_command that does not set BUSY before the action
ExecuteCommand_Begin_keeps_status ==
  /\ pc = "exec"
  /\ dispatched' = Append(dispatched, <<cmd, cmd_src, page_buffer>>)
  /\ pc' = "clrerr"
  /\ UNCHANGED <<flashVars, post_code, cmd, cmd_src, page_buffer, page_index, page_addr, expected_crc,
                 reg_addr, addr_received, tx_mode, pending_command, bl_status, bl_error,
                 bus_phase, bus_txns, bus_bytes, bus_read, posted, harnessVars>>
  /\ UNCHANGED hostVars

\* execute_command(cmd): bl_status = BL_STATUS_BUSY;
ExecuteCommand_Begin ==
  /\ pc = "exec"
  /\ bl_status' = BL_STATUS_BUSY
  /\ dispatched' = Append(dispatched, <<cmd, cmd_src, page_buffer>>)
  /\ pc' = "clrerr"
  /\ UNCHANGED <<flashVars, post_code, cmd, cmd_src, page_buffer, page_index, page_addr, expected_crc,
                 reg_addr, addr_received, tx_mode, pending_command, bl_error,
                 bus_phase, bus_txns, bus_bytes, bus_read, posted, harnessVars>>
  /\ UNCHANGED hostVars

\* execute_command(cmd): bl_error = BL_ERR_NONE;
ExecuteCommand_ClearError ==
  /\ pc = "clrerr"
  /\ bl_error' = BL_ERR_NONE
  /\ pc' = "busy"
  /\ UNCHANGED <<flashVars, post_code, cmd, cmd_src, page_buffer, page_index, page_addr, expected_crc,
                 reg_addr, addr_received, tx_mode, pending_command, bl_status, busVars, harnessVars>>
  /\ UNCHANGED hostVars

\* execute_command(cmd): the switch up to the assignment of bl_error, which
\* the failing branches make before they assign bl_status
ExecuteCommand_Switch ==
  /\ pc = "busy"
  /\ \E o \in CommandOutcomes(cmd) :
       IF o = "fault"
       THEN /\ cmd = BL_CMD_VERIFY /\ VerifyOutOfRange(flash)
            /\ pc' = "fault"
            /\ UNCHANGED <<flashVars, bl_error>>
       ELSE LET r == execute_command(cmd, Hw, o)
            IN  /\ SetHw(r.h)
                /\ bl_error' = r.error
                /\ pc' = "result"
  /\ UNCHANGED <<post_code, cmd, cmd_src, page_buffer, page_index, page_addr, expected_crc,
                 reg_addr, addr_received, tx_mode, pending_command, bl_status, busVars, harnessVars>>
  /\ UNCHANGED hostVars

\* execute_command(cmd): bl_status = BL_STATUS_ERROR in the branches that
\* assigned an error code, bl_status = BL_STATUS_SUCCESS in the others
ExecuteCommand_Status ==
  /\ pc = "result"
  /\ bl_status' = IF bl_error = BL_ERR_NONE THEN BL_STATUS_SUCCESS ELSE BL_STATUS_ERROR
  /\ pc' = "status"
  /\ UNCHANGED <<flashVars, post_code, cmd, cmd_src, page_buffer, page_index, page_addr, expected_crc,
                 reg_addr, addr_received, tx_mode, pending_command, bl_error, busVars, harnessVars>>
  /\ UNCHANGED hostVars

\* the status test after a command was executed
CheckStatus ==
  /\ pc = "status"
  /\ pc' = IF ShouldJump(bl_status, flash) THEN "delay" ELSE "loop"
  /\ UNCHANGED <<flashVars, post_code, cmd, cmd_src, i2cVars, busVars, harnessVars>>
  /\ UNCHANGED hostVars

\* Delay_Ms(10); jump_to_app();
JumpToApp ==
  /\ pc = "delay"
  /\ pc' = "app"
  /\ UNCHANGED <<flashVars, post_code, cmd, cmd_src, i2cVars, busVars, harnessVars>>
  /\ UNCHANGED hostVars

\* bl_client_write_register in the running application: the trigger value at
\* REG_APP_UPDATE_CMD makes it write the boot state and reset the chip
AppUpdateTrigger ==
  /\ pc = "app"
  /\ \E reg \in {REG_APP_UPDATE_CMD}, value \in {BL_UPDATE_TRIGGER} :
       reg = REG_APP_UPDATE_CMD /\ value = BL_UPDATE_TRIGGER
  /\ flash' = write_boot_state_update(flash)
  /\ flash_locked' = TRUE /\ flash_per' = FALSE /\ flash_pg' = FALSE /\ flash_bsy' = FALSE
  /\ pc' = "boot"
  /\ bl_status' = BL_STATUS_IDLE
  /\ bl_error' = BL_ERR_NONE
  /\ page_buffer' = Zeros(PAGE_BUFFER_SIZE)
  /\ page_index' = 0
  /\ page_addr' = 0
  /\ expected_crc' = U32(0)
  /\ reg_addr' = 0
  /\ addr_received' = 0
  /\ tx_mode' = 0
  /\ pending_command' = 0
  /\ cmd' = 0
  /\ cmd_src' = 0
  /\ post_code' = 0
  /\ bus_phase' = "idle"
  /\ bus_bytes' = 0
  /\ UNCHANGED <<bus_txns, bus_read, posted, dispatched, harnessVars>>
  /\ UNCHANGED hostVars

\* I2C1_EV_IRQHandler, ADDR with the controller writing
I2C_AddrWrite ==
  /\ pc \in UpdateModePcs
  /\ bus_phase = "idle"
  /\ bus_txns < MaxTxn
  /\ tx_mode' = 0
  /\ addr_received' = 0
  /\ page_index' = 0
  /\ bus_phase' = "write"
  /\ bus_txns' = bus_txns + 1
  /\ bus_bytes' = 0
  /\ UNCHANGED <<flashVars, mainVars, bl_status, bl_error, page_buffer, page_addr, expected_crc,
                 reg_addr, pending_command, bus_read, posted, dispatched, harnessVars>>
  /\ UNCHANGED hostVars

\* an RXNE handler that advances the page index without testing it
RXNE_unguarded(data) ==
  IF addr_received = 0
  THEN /\ reg_addr' = data
       /\ addr_received' = 1
       /\ page_index' = 0
       /\ UNCHANGED <<page_buffer, page_addr, expected_crc, pending_command>>
  ELSE /\ page_buffer' = IF reg_addr = REG_BL_DATA /\ page_index < PAGE_BUFFER_SIZE
                         THEN [page_buffer EXCEPT ![page_index + 1] = data] ELSE page_buffer
       /\ page_index' = IF reg_addr = REG_BL_DATA THEN page_index + 1 ELSE page_index
       /\ page_addr' = IF reg_addr = REG_BL_ADDR_L THEN (page_addr \div 256) * 256 + data
                       ELSE IF reg_addr = REG_BL_ADDR_H THEN (page_addr % 256) + 256 * data
                       ELSE page_addr
       /\ expected_crc' = IF reg_addr = REG_BL_CRC_0 THEN [expected_crc EXCEPT ![1] = data]
                          ELSE IF reg_addr = REG_BL_CRC_1 THEN [expected_crc EXCEPT ![2] = data]
                          ELSE IF reg_addr = REG_BL_CRC_2 THEN [expected_crc EXCEPT ![3] = data]
                          ELSE IF reg_addr = REG_BL_CRC_3 THEN [expected_crc EXCEPT ![4] = data]
                          ELSE expected_crc
       /\ pending_command' = IF reg_addr = REG_BL_CMD THEN data ELSE pending_command
       /\ UNCHANGED <<reg_addr, addr_received>>

\* I2C1_EV_IRQHandler, RXNE: what the handler does with the byte received
RXNE(data) ==
  IF addr_received = 0
  THEN /\ reg_addr' = data
       /\ addr_received' = 1
       /\ page_index' = 0
       /\ UNCHANGED <<page_buffer, page_addr, expected_crc, pending_command>>
  ELSE /\ page_buffer' = IF reg_addr = REG_BL_DATA /\ page_index < PAGE_BUFFER_SIZE
                         THEN [page_buffer EXCEPT ![page_index + 1] = data] ELSE page_buffer
       /\ page_index' = IF reg_addr = REG_BL_DATA /\ page_index < PAGE_BUFFER_SIZE
                        THEN page_index + 1 ELSE page_index
       /\ page_addr' = IF reg_addr = REG_BL_ADDR_L THEN (page_addr \div 256) * 256 + data
                       ELSE IF reg_addr = REG_BL_ADDR_H THEN (page_addr % 256) + 256 * data
                       ELSE page_addr
       /\ expected_crc' = IF reg_addr = REG_BL_CRC_0 THEN [expected_crc EXCEPT ![1] = data]
                          ELSE IF reg_addr = REG_BL_CRC_1 THEN [expected_crc EXCEPT ![2] = data]
                          ELSE IF reg_addr = REG_BL_CRC_2 THEN [expected_crc EXCEPT ![3] = data]
                          ELSE IF reg_addr = REG_BL_CRC_3 THEN [expected_crc EXCEPT ![4] = data]
                          ELSE expected_crc
       /\ pending_command' = IF reg_addr = REG_BL_CMD THEN data ELSE pending_command
       /\ UNCHANGED <<reg_addr, addr_received>>

\* an RXNE handler that marks the status BUSY when it stores a command
I2C_RxByte_marks_busy ==
  /\ pc \in UpdateModePcs
  /\ bus_phase = "write"
  /\ addr_received = 1 => (reg_addr = REG_BL_DATA \/ bus_bytes = 0)
  /\ addr_received = 1 => bus_bytes <= PAGE_BUFFER_SIZE
  /\ (addr_received = 1 /\ reg_addr = REG_BL_DATA) => (pc = "loop" /\ pending_command = 0)
  /\ \E data \in (IF addr_received = 0 THEN RegPointers ELSE DataMenu(reg_addr)) :
       /\ RXNE(data)
       /\ bus_bytes' = IF addr_received = 0 THEN 0 ELSE bus_bytes + 1
       /\ posted' = IF addr_received = 1 /\ reg_addr = REG_BL_CMD
                    THEN Append(posted, <<"cmd", data, bl_status>>) ELSE posted
  /\ bl_status' = IF addr_received = 1 /\ reg_addr = REG_BL_CMD THEN BL_STATUS_BUSY ELSE bl_status
  /\ UNCHANGED <<flashVars, mainVars, bl_error, tx_mode,
                 bus_phase, bus_txns, bus_read, dispatched, harnessVars>>
  /\ UNCHANGED hostVars

\* I2C1_EV_IRQHandler, RXNE
I2C_RxByte ==
  /\ pc \in UpdateModePcs
  /\ bus_phase = "write"
  /\ addr_received = 1 => (reg_addr = REG_BL_DATA \/ bus_bytes = 0)
  /\ addr_received = 1 => bus_bytes <= PAGE_BUFFER_SIZE
  /\ (addr_received = 1 /\ reg_addr = REG_BL_DATA) => (pc = "loop" /\ pending_command = 0)
  /\ \E data \in (IF addr_received = 0 THEN RegPointers ELSE DataMenu(reg_addr)) :
       /\ RXNE(data)
       /\ bus_bytes' = IF addr_received = 0 THEN 0 ELSE bus_bytes + 1
       /\ posted' = IF addr_received = 1 /\ reg_addr = REG_BL_CMD
                    THEN Append(posted, <<"cmd", data, bl_status>>) ELSE posted
  /\ UNCHANGED <<flashVars, mainVars, bl_status, bl_error, tx_mode,
                 bus_phase, bus_txns, bus_read, dispatched, harnessVars>>
  /\ UNCHANGED hostVars

\* I2C1_EV_IRQHandler, ADDR with the controller reading: the repeated start
\* of a register read, after the controller has sent the register pointer
I2C_AddrRead ==
  /\ pc \in UpdateModePcs
  /\ bus_phase = "write"
  /\ addr_received = 1 /\ bus_bytes = 0
  /\ tx_mode' = 1
  /\ bus_read' = <<reg_addr, read_register(reg_addr)>>
  /\ reg_addr' = (reg_addr + 1) % 256
  /\ posted' = IF reg_addr = REG_BL_STATUS /\ bl_status = BL_STATUS_IDLE
               THEN Append(posted, <<"idle", 0, bl_status>>) ELSE posted
  /\ bus_phase' = "read"
  /\ bus_bytes' = 1
  /\ UNCHANGED <<flashVars, mainVars, bl_status, bl_error, page_buffer, page_index, page_addr,
                 expected_crc, addr_received, pending_command, bus_txns, dispatched, harnessVars>>
  /\ UNCHANGED hostVars

\* I2C1_EV_IRQHandler, TXE
I2C_TxByte ==
  /\ pc \in UpdateModePcs
  /\ bus_phase = "read"
  /\ bus_bytes < MaxReadLen
  /\ tx_mode = 1
  /\ bus_read' = <<reg_addr, read_register(reg_addr)>>
  /\ reg_addr' = (reg_addr + 1) % 256
  /\ posted' = IF reg_addr = REG_BL_STATUS /\ bl_status = BL_STATUS_IDLE
               THEN Append(posted, <<"idle", 0, bl_status>>) ELSE posted
  /\ bus_bytes' = bus_bytes + 1
  /\ UNCHANGED <<flashVars, mainVars, bl_status, bl_error, page_buffer, page_index, page_addr,
                 expected_crc, addr_received, tx_mode, pending_command,
                 bus_phase, bus_txns, dispatched, harnessVars>>
  /\ UNCHANGED hostVars

\* I2C1_EV_IRQHandler, STOPF
I2C_Stop ==
  /\ pc \in UpdateModePcs
  /\ bus_phase = "write"
  /\ (addr_received = 1 /\ reg_addr = REG_BL_DATA) => bus_bytes \in DataStopPoints
  /\ tx_mode' = 0
  /\ addr_received' = 0
  /\ bus_phase' = "idle"
  /\ UNCHANGED <<flashVars, mainVars, bl_status, bl_error, page_buffer, page_index, page_addr,
                 expected_crc, reg_addr, pending_command,
                 bus_txns, bus_bytes, bus_read, posted, dispatched, harnessVars>>
  /\ UNCHANGED hostVars

\* I2C1_ER_IRQHandler: the controller's NACK after the last byte it reads (AF)
I2C_Error ==
  /\ pc \in UpdateModePcs
  /\ bus_phase = "read"
  /\ tx_mode' = 0
  /\ addr_received' = 0
  /\ bus_phase' = "idle"
  /\ UNCHANGED <<flashVars, mainVars, bl_status, bl_error, page_buffer, page_index, page_addr,
                 expected_crc, reg_addr, pending_command,
                 bus_txns, bus_bytes, bus_read, posted, dispatched, harnessVars>>
  /\ UNCHANGED hostVars

Next ==
  \/ Boot \/ ProcessCommands_None \/ ProcessCommands_Test \/ ProcessCommands_Read
  \/ ProcessCommands_Clear \/ ExecuteCommand_Begin \/ ExecuteCommand_ClearError
  \/ ExecuteCommand_Switch \/ ExecuteCommand_Status \/ CheckStatus
  \/ JumpToApp \/ AppUpdateTrigger
  \/ I2C_AddrWrite \/ I2C_RxByte \/ I2C_AddrRead \/ I2C_TxByte \/ I2C_Stop \/ I2C_Error

Spec == Init /\ [][Next]_vars

---------------------------------------------------------------------------
(* SpecPoll: the bootloader as in Spec with a bus controller that, once a  *)
(* command has been dispatched, keeps polling the status register.  It     *)
(* ends the transaction it is in; each poll is one transaction (register   *)
(* pointer 0xF1, repeated start, one byte read, NACK) and runs the         *)
(* interrupt handlers for it in one step.  The main program and the        *)
(* polling never stop.                                                     *)
PollStatus ==
  /\ pc \in UpdateModePcs
  /\ bus_phase = "idle"
  /\ dispatched # <<>>
  /\ tx_mode' = 0
  /\ addr_received' = 0
  /\ page_index' = 0
  /\ bus_read' = <<REG_BL_STATUS, read_register(REG_BL_STATUS)>>
  /\ reg_addr' = (REG_BL_STATUS + 1) % 256
  /\ posted' = IF bl_status = BL_STATUS_IDLE
               THEN Append(posted, <<"idle", 0, bl_status>>) ELSE posted
  /\ bus_bytes' = 1
  /\ UNCHANGED <<flashVars, mainVars, bl_status, bl_error, page_buffer, page_addr,
                 expected_crc, pending_command, bus_phase, bus_txns, dispatched, harnessVars>>
  /\ UNCHANGED hostVars

\* the steps of the main program between its tests of the flash
FetchCommand ==
  \/ ProcessCommands_Test \/ ProcessCommands_Read \/ ProcessCommands_Clear
  \/ ExecuteCommand_Begin \/ ExecuteCommand_ClearError \/ ExecuteCommand_Status \/ JumpToApp

\* the main program is about to take a step that tests or changes the flash:
\* Boot, ExecuteCommand_Switch, CheckStatus, or a ProcessCommands_None that
\* jumps
AtFlashStep ==
  \/ pc \in {"boot", "busy", "status"}
  \/ pc = "loop" /\ pending_command = 0 /\ ShouldJump(bl_status, flash)

NextPoll == Next \/ PollStatus

\* each of the steps named in AtFlashStep ends AtFlashStep for the moment, so
\* weak fairness of these steps is []<>~AtFlashStep
SpecPoll ==
  /\ Init /\ [][NextPoll]_vars
  /\ WF_vars(FetchCommand) /\ []<>~AtFlashStep
  /\ WF_vars(I2C_Stop) /\ WF_vars(I2C_Error) /\ WF_vars(PollStatus)

---------------------------------------------------------------------------
(* SpecRegs: the bootloader in update mode with a bus controller that      *)
(* writes registers in up to MaxTxn + 1 transactions of a register pointer *)
(* and up to MaxWriteLen data bytes.  No command is sent and the main loop *)
(* has nothing to do; sent records the bytes of the transaction.           *)
MaxWriteLen == 4

WritePointers == {REG_BL_ADDR_L, REG_BL_ADDR_H, REG_BL_CRC_0, REG_BL_DATA}
WriteBytes    == {1, 64}

InitRegs ==
  /\ flash = HeaderlessImage
  /\ pc = "loop"
  /\ RamInit /\ FlashCtlInit /\ BusInit /\ HarnessInit /\ HostInit

RegsFrame ==
  UNCHANGED <<flashVars, mainVars, bl_status, bl_error, bus_read, posted, dispatched,
              flash0, post0, mut, ret, cycle, crc_run, erase_run, hostVars>>

\* I2C1_EV_IRQHandler, ADDR with the controller writing
W_AddrWrite ==
  /\ bus_phase = "idle"
  /\ bus_txns <= MaxTxn
  /\ bus_txns' = bus_txns + 1
  /\ tx_mode' = 0
  /\ addr_received' = 0
  /\ page_index' = 0
  /\ bus_phase' = "write"
  /\ bus_bytes' = 0
  /\ sent' = <<>>
  /\ UNCHANGED <<page_buffer, page_addr, expected_crc, reg_addr, pending_command>>
  /\ RegsFrame

\* I2C1_EV_IRQHandler, RXNE
W_RxByte ==
  /\ bus_phase = "write"
  /\ Len(sent) <= MaxWriteLen
  /\ \E data \in (IF addr_received = 0 THEN WritePointers ELSE WriteBytes) :
       /\ RXNE(data)
       /\ sent' = Append(sent, data)
  /\ bus_bytes' = Len(sent)
  /\ UNCHANGED <<tx_mode, bus_phase, bus_txns>>
  /\ RegsFrame

\* I2C1_EV_IRQHandler, STOPF
W_Stop ==
  /\ bus_phase = "write"
  /\ tx_mode' = 0
  /\ addr_received' = 0
  /\ bus_phase' = "idle"
  /\ UNCHANGED <<page_buffer, page_index, page_addr, expected_crc, reg_addr, pending_command,
                 bus_txns, bus_bytes, sent>>
  /\ RegsFrame

NextRegs == W_AddrWrite \/ W_RxByte \/ W_Stop

SpecRegs == InitRegs /\ [][NextRegs]_vars

---------------------------------------------------------------------------
(* SpecBusy: the bootloader in update mode with a page in its buffer and a *)
(* WRITE command in the slot, and a bus controller that goes on writing    *)
(* registers while the main loop takes the command and executes it.        *)
InitBusy ==
  /\ flash = EmptyFlash
  /\ pc = "loop"
  /\ FlashCtlInit /\ HarnessInit /\ HostInit
  /\ bl_status = BL_STATUS_IDLE /\ bl_error = BL_ERR_NONE
  /\ page_buffer \in PageScripts
  /\ page_index = 0 /\ page_addr \in {0, BL_FLASH_PAGE_SIZE} /\ expected_crc = U32(0)
  /\ reg_addr = REG_BL_CMD /\ addr_received = 0 /\ tx_mode = 0
  /\ pending_command = BL_CMD_WRITE
  /\ cmd = 0 /\ cmd_src = 0 /\ post_code = POST_NO_APP
  /\ bus_phase = "idle" /\ bus_txns = MaxTxn /\ bus_bytes = 0 /\ bus_read = <<>>
  /\ posted = <<<<"cmd", BL_CMD_WRITE, BL_STATUS_IDLE>>>>
  /\ dispatched = <<>>

NextBusy ==
  \/ ProcessCommands_Test \/ ProcessCommands_Read \/ ProcessCommands_Clear
  \/ ExecuteCommand_Begin \/ ExecuteCommand_ClearError \/ ExecuteCommand_Switch
  \/ ExecuteCommand_Status \/ CheckStatus
  \/ W_AddrWrite \/ W_RxByte \/ W_Stop

SpecBusy == InitBusy /\ [][NextBusy]_vars

---------------------------------------------------------------------------
(* SpecRead: the bootloader in update mode, idle or after a command that   *)
(* ended with an error, and a bus controller that reads registers in up to *)
(* MaxTxn + 1 transactions: a register pointer, a repeated start, and up   *)
(* to MaxReadLen bytes read.  sent records the bytes of the transaction.   *)
REG_UNMAPPED == 243
ReadPointers == {REG_HW_TYPE, REG_BL_VERSION, REG_BL_STATUS, REG_UNMAPPED, REG_BL_CRC_2, REG_BL_CRC_3}

InitRead ==
  /\ flash \in {HeaderlessImage, OversizeImage}
  /\ pc = "loop"
  /\ FlashCtlInit /\ BusInit /\ HarnessInit /\ HostInit
  /\ bl_error \in {BL_ERR_NONE, BL_ERR_INVALID_CMD}
  /\ bl_status = IF bl_error = BL_ERR_NONE THEN BL_STATUS_IDLE ELSE BL_STATUS_ERROR
  /\ page_buffer = Zeros(BL_FLASH_PAGE_SIZE)
  /\ page_index = 0 /\ page_addr = 0 /\ expected_crc = <<1, 2, 3, 4>>
  /\ reg_addr = 0 /\ addr_received = 0 /\ tx_mode = 0
  /\ pending_command = 0 /\ cmd = 0 /\ cmd_src = 0
  /\ post_code = POST_INVALID_HEADER

\* I2C1_EV_IRQHandler, RXNE: the register pointer
R_RxByte ==
  /\ bus_phase = "write"
  /\ addr_received = 0
  /\ \E data \in ReadPointers :
       /\ RXNE(data)
       /\ sent' = <<data>>
  /\ bus_bytes' = 0
  /\ UNCHANGED <<tx_mode, bus_phase, bus_txns>>
  /\ RegsFrame

\* I2C1_EV_IRQHandler, ADDR with the controller reading
R_AddrRead ==
  /\ bus_phase = "write"
  /\ addr_received = 1
  /\ tx_mode' = 1
  /\ sent' = Append(sent, read_register(reg_addr))
  /\ reg_addr' = (reg_addr + 1) % 256
  /\ bus_phase' = "read"
  /\ bus_bytes' = 1
  /\ UNCHANGED <<page_buffer, page_index, page_addr, expected_crc, addr_received, pending_command,
                 bus_txns>>
  /\ RegsFrame

\* a TXE branch that transmits without advancing the pointer
R_TxByte_keeps_pointer ==
  /\ bus_phase = "read"
  /\ bus_bytes < MaxReadLen
  /\ tx_mode = 1
  /\ sent' = Append(sent, read_register(reg_addr))
  /\ bus_bytes' = bus_bytes + 1
  /\ UNCHANGED <<page_buffer, page_index, page_addr, expected_crc, reg_addr, addr_received, tx_mode,
                 pending_command, bus_phase, bus_txns>>
  /\ RegsFrame

\* I2C1_EV_IRQHandler, TXE
R_TxByte ==
  /\ bus_phase = "read"
  /\ bus_bytes < MaxReadLen
  /\ tx_mode = 1
  /\ sent' = Append(sent, read_register(reg_addr))
  /\ reg_addr' = (reg_addr + 1) % 256
  /\ bus_bytes' = bus_bytes + 1
  /\ UNCHANGED <<page_buffer, page_index, page_addr, expected_crc, addr_received, tx_mode,
                 pending_command, bus_phase, bus_txns>>
  /\ RegsFrame

\* I2C1_ER_IRQHandler: the controller's NACK after the last byte it reads
R_Error ==
  /\ bus_phase = "read"
  /\ tx_mode' = 0
  /\ addr_received' = 0
  /\ bus_phase' = "idle"
  /\ UNCHANGED <<page_buffer, page_index, page_addr, expected_crc, reg_addr, pending_command,
                 bus_txns, bus_bytes, sent>>
  /\ RegsFrame

NextRead == W_AddrWrite \/ R_RxByte \/ R_AddrRead \/ R_TxByte \/ R_Error

SpecRead == InitRead /\ [][NextRead]_vars

---------------------------------------------------------------------------
(* SpecHost: the programmer's main loop.  One pass is process(), then the  *)
(* input handling, then the sleep; the clock advances in the sleep.  What  *)
(* the debug transport and the target flash driver answer is an input:     *)
(* the DMSTATUS values read while halting, whether halt() succeeds and     *)
(* whether the readback verifications match.  host_calls lists the calls   *)
(* made on rv_debug and wch_flash as <<name, argument>>.                   *)

\* a read of DMSTATUS: all ones, all zeros, ALLHALTED and ALLRUNNING both
\* set, ALLHALTED without ALLRUNNING, or any other value
StatusKinds == {"ones", "zeros", "both", "halted", "other"}

InvalidStatus(st) == st \in {"ones", "zeros", "both"}
ALLHALTED(st)  == st \in {"ones", "both", "halted"}
ALLRUNNING(st) == st \in {"ones", "both"}

\* the polls of one haltWithTimeout: <<status read, ms elapsed at the
\* test after it>>, with the elapsed time never going back
MaxPolls == 2
PollTimes == {0, HALT_TIMEOUT_MS, HALT_TIMEOUT_MS + 1}
Polls == StatusKinds \X PollTimes

\* the poll ends the loop
TerminalPoll(p, timeout_ms) == InvalidStatus(p[1]) \/ ALLHALTED(p[1]) \/ p[2] > timeout_ms

\* the polls that do not end the loop, in sequences of up to MaxPolls - 1
PollSeqs ==
  LET going == {p \in Polls : ~TerminalPoll(p, HALT_TIMEOUT_MS)}
  IN  UNION {[1..n -> going] : n \in 0..(MaxPolls - 1)}

HaltScripts ==
  {Append(x[1], x[2]) :
     x \in {y \in PollSeqs \X Polls :
              /\ TerminalPoll(y[2], HALT_TIMEOUT_MS)
              /\ \A i \in 1..(Len(y[1]) - 1) : y[1][i][2] <= y[1][i + 1][2]
              /\ Len(y[1]) > 0 => y[1][Len(y[1])][2] <= y[2][2]}}

\* a halt loop that only looks at ALLHALTED
RECURSIVE haltLoop_allhalted_only(_, _, _)
haltLoop_allhalted_only(polls, i, timeout_ms) ==
  LET raw     == polls[i][1]
      elapsed == polls[i][2]
  IN  IF ALLHALTED(raw) THEN [ok |-> TRUE, used |-> i]
      ELSE IF elapsed > timeout_ms \/ i = Len(polls) THEN [ok |-> FALSE, used |-> i]
      ELSE haltLoop_allhalted_only(polls, i + 1, timeout_ms)

RECURSIVE haltLoop(_, _, _)
haltLoop(polls, i, timeout_ms) ==
  LET raw     == polls[i][1]
      elapsed == polls[i][2]
  IN  IF raw = "ones" \/ raw = "zeros" \/ (ALLHALTED(raw) /\ ALLRUNNING(raw))
      THEN [ok |-> FALSE, used |-> i]
      ELSE IF ALLHALTED(raw) THEN [ok |-> TRUE, used |-> i]
      ELSE IF elapsed > timeout_ms THEN [ok |-> FALSE, used |-> i]
      ELSE haltLoop(polls, i + 1, timeout_ms)

haltWithTimeout_allhalted_only(polls, timeout_ms) ==
  LET r == haltLoop_allhalted_only(polls, 1, timeout_ms)
  IN  [ok |-> r.ok,
       calls |-> <<<<"set_dmcontrol", "haltreq">>>>
                 \o [i \in 1..r.used |-> <<"get_dmstatus", polls[i][1]>>]
                 \o <<<<"set_dmcontrol", "clear">>>>]

haltWithTimeout(polls, timeout_ms) ==
  LET r == haltLoop(polls, 1, timeout_ms)
  IN  [ok |-> r.ok,
       calls |-> <<<<"set_dmcontrol", "haltreq">>>>
                 \o [i \in 1..r.used |-> <<"get_dmstatus", polls[i][1]>>]
                 \o <<<<"set_dmcontrol", "clear">>>>]

HostRet(calls, ok) == [calls |-> calls, ok |-> ok]

CleanUp == <<<<"lock_flash", 0>>, <<"reset", 0>>, <<"resume", 0>>>>

WipeSectorCalls(first_sector, last_sector) ==
  [i \in 1..(last_sector + 1 - first_sector) |-> <<"wipe_sector", (first_sector + i - 1) * SECTOR_SIZE>>]

\* a programFlash that returns from a failed verification at once
programFlash_returns_on_verify_failure(data_ok, size, base_address, halt_ok, success) ==
  IF ~data_ok \/ size = 0 THEN HostRet(<<>>, FALSE)
  ELSE IF ~halt_ok THEN HostRet(<<<<"halt", 0>>>>, FALSE)
  ELSE HostRet(<<<<"halt", 0>>, <<"unlock_flash", 0>>>>
               \o WipeSectorCalls(base_address \div SECTOR_SIZE, (base_address + size - 1) \div SECTOR_SIZE)
               \o <<<<"write_flash", base_address>>, <<"verify_flash", base_address>>>>
               \o (IF success THEN CleanUp ELSE <<>>),
               success)

programFlash(data_ok, size, base_address, halt_ok, success) ==
  IF ~data_ok \/ size = 0 THEN HostRet(<<>>, FALSE)
  ELSE IF ~halt_ok THEN HostRet(<<<<"halt", 0>>>>, FALSE)
  ELSE HostRet(<<<<"halt", 0>>, <<"unlock_flash", 0>>>>
               \o WipeSectorCalls(base_address \div SECTOR_SIZE, (base_address + size - 1) \div SECTOR_SIZE)
               \o <<<<"write_flash", base_address>>, <<"verify_flash", base_address>>>>
               \o CleanUp,
               success)

wipeChip(halt_ok) ==
  IF ~halt_ok THEN HostRet(<<<<"halt", 0>>>>, FALSE)
  ELSE HostRet(<<<<"halt", 0>>, <<"unlock_flash", 0>>, <<"wipe_chip", 0>>>> \o CleanUp, TRUE)

rebootChip == HostRet(<<<<"reset", 0>>, <<"resume", 0>>>>, TRUE)

\* the calls of programFirmware: the application-type path writes and
\* verifies the header and the image, the other path is programFlash
programFirmwareCalls(fw, halt_ok, header_ok, firmware_ok) ==
  IF ~fw.data_ok \/ fw.size = 0 THEN HostRet(<<>>, FALSE)
  ELSE IF fw.fw_type = FW_TYPE_APP
  THEN IF ~halt_ok THEN HostRet(<<<<"halt", 0>>>>, FALSE)
       ELSE HostRet(<<<<"halt", 0>>, <<"unlock_flash", 0>>>>
                    \o WipeSectorCalls(FW_APP_HEADER_ADDR \div SECTOR_SIZE,
                                       (fw.load_addr + fw.size - 1) \div SECTOR_SIZE)
                    \o <<<<"write_flash", FW_APP_HEADER_ADDR>>, <<"write_flash", fw.load_addr>>,
                          <<"verify_flash", FW_APP_HEADER_ADDR>>, <<"verify_flash", fw.load_addr>>>>
                    \o CleanUp,
                    header_ok /\ firmware_ok)
  ELSE programFlash(fw.data_ok, fw.size, fw.load_addr, halt_ok, firmware_ok)

\* the firmware inventory: an application image, a standalone image that
\* spans two sectors, and an entry without data
firmware_list ==
  <<[fw_type |-> FW_TYPE_APP,  data_ok |-> TRUE, size |-> 1, load_addr |-> FW_LOAD_ADDR_APP],
    [fw_type |-> FW_TYPE_BOOT, data_ok |-> TRUE, size |-> SECTOR_SIZE + 1, load_addr |-> 0],
    [fw_type |-> FW_TYPE_BOOT, data_ok |-> TRUE, size |-> 0, load_addr |-> 0]>>

firmware_count == Len(firmware_list)

\* digits the console can send: wipe, the three entries, an index without
\* an entry, reboot
UartDigits == {INDEX_WIPE, 1, 2, 3, 4, INDEX_REBOOT}

\* <<halt() succeeded, header readback matched, image readback matched>>
ProgramOutcomes == {<<TRUE, TRUE, TRUE>>, <<FALSE, TRUE, TRUE>>, <<TRUE, FALSE, TRUE>>, <<TRUE, TRUE, FALSE>>}

\* the PROGRAMMING case of process(): the selection decides what runs
ProgrammingStep(index, halt_ok, header_ok, firmware_ok) ==
  IF index = INDEX_WIPE THEN wipeChip(halt_ok)
  ELSE IF index = INDEX_REBOOT THEN rebootChip
  ELSE IF index <= firmware_count
  THEN programFirmwareCalls(firmware_list[index], halt_ok, header_ok, firmware_ok)
  ELSE HostRet(<<>>, FALSE)

setState(state) ==
  /\ prev_state' = current_state
  /\ current_state' = state
  /\ state_timer' = clock

HostFrame == UNCHANGED <<flashVars, mainVars, i2cVars, busVars, harnessVars>>

InitHost ==
  /\ flash = EmptyFlash
  /\ pc = "host"
  /\ RamInit /\ FlashCtlInit /\ BusInit /\ HarnessInit /\ HostInit

\* a process() that stays in CHECKING_TARGET when the halt request timed
\* out and polls again in the next call
Process_CheckingTarget_retries ==
  /\ host_pc = "process" /\ current_state = STATE_CHECKING_TARGET
  /\ \E polls \in HaltScripts :
       LET r == haltWithTimeout(polls, HALT_TIMEOUT_MS)
           timed_out == ~r.ok /\ ~InvalidStatus(polls[Len(polls)][1])
       IN  /\ IF timed_out THEN UNCHANGED <<current_state, state_timer, prev_state>>
              ELSE setState(IF r.ok THEN STATE_PROGRAMMING ELSE STATE_ERROR)
           /\ host_in' = [NoCycle EXCEPT !.step = "check", !.polls = polls, !.ok = r.ok]
           /\ host_calls' = r.calls
  /\ host_pc' = "input"
  /\ UNCHANGED <<current_firmware_index, start_index, clock>>
  /\ HostFrame

Process_CheckingTarget ==
  /\ host_pc = "process" /\ current_state = STATE_CHECKING_TARGET
  /\ \E polls \in HaltScripts :
       LET r == haltWithTimeout(polls, HALT_TIMEOUT_MS)
       IN  /\ setState(IF r.ok THEN STATE_PROGRAMMING ELSE STATE_ERROR)
           /\ host_in' = [NoCycle EXCEPT !.step = "check", !.polls = polls, !.ok = r.ok]
           /\ host_calls' = r.calls
  /\ host_pc' = "input"
  /\ UNCHANGED <<current_firmware_index, start_index, clock>>
  /\ HostFrame

Process_Programming ==
  /\ host_pc = "process" /\ current_state = STATE_PROGRAMMING
  /\ \E o \in ProgramOutcomes :
       LET r == ProgrammingStep(current_firmware_index, o[1], o[2], o[3])
           \* an answer nobody asked for is not part of the history
           asked(name) == \E i \in 1..Len(r.calls) : r.calls[i][1] = name
           nverify == Cardinality({i \in 1..Len(r.calls) : r.calls[i][1] = "verify_flash"})
       IN  /\ (~o[1] => asked("halt"))
           /\ (~o[2] => nverify = 2)
           /\ (~o[3] => nverify >= 1)
           /\ setState(IF r.ok THEN STATE_SUCCESS ELSE STATE_ERROR)
           /\ host_in' = [NoCycle EXCEPT !.step = "program", !.sel = current_firmware_index,
                                         !.halt_ok = o[1], !.header_ok = o[2], !.firmware_ok = o[3],
                                         !.ok = r.ok]
           /\ host_calls' = r.calls
  /\ host_pc' = "input"
  /\ UNCHANGED <<current_firmware_index, start_index, clock>>
  /\ HostFrame

Process_Error ==
  /\ host_pc = "process" /\ current_state = STATE_ERROR
  /\ IF Elapsed(clock, state_timer) >= ERROR_DWELL_MS
     THEN setState(STATE_IDLE) /\ host_in' = NoCycle /\ host_calls' = <<>> /\ start_index' = 0
     ELSE UNCHANGED <<current_state, state_timer, prev_state, host_in, host_calls, start_index>>
  /\ host_pc' = "input"
  /\ UNCHANGED <<current_firmware_index, clock>>
  /\ HostFrame

Process_Success ==
  /\ host_pc = "process" /\ current_state = STATE_SUCCESS
  /\ IF Elapsed(clock, state_timer) >= SUCCESS_DWELL_MS
     THEN setState(STATE_IDLE) /\ host_in' = NoCycle /\ host_calls' = <<>> /\ start_index' = 0
     ELSE UNCHANGED <<current_state, state_timer, prev_state, host_in, host_calls, start_index>>
  /\ host_pc' = "input"
  /\ UNCHANGED <<current_firmware_index, clock>>
  /\ HostFrame

\* isFirmwareIndicationActive() is the LED controller's answer
Process_CyclingFirmware ==
  /\ host_pc = "process" /\ current_state = STATE_CYCLING_FIRMWARE
  /\ \E active \in BOOLEAN :
       IF ~active THEN setState(STATE_IDLE) ELSE UNCHANGED <<current_state, state_timer, prev_state>>
  /\ host_pc' = "input"
  /\ UNCHANGED <<current_firmware_index, start_index, clock, host_in, host_calls>>
  /\ HostFrame

Process_Idle ==
  /\ host_pc = "process" /\ current_state = STATE_IDLE
  /\ host_pc' = "input"
  /\ UNCHANGED <<current_state, state_timer, prev_state, current_firmware_index, start_index, clock, host_in, host_calls>>
  /\ HostFrame

\* the state is not IDLE: input is not read in this pass
Input_None ==
  /\ host_pc = "input" /\ current_state # STATE_IDLE
  /\ host_pc' = "sleep"
  /\ UNCHANGED <<current_state, state_timer, prev_state, current_firmware_index, start_index, clock,
                 host_in, host_calls>>
  /\ HostFrame

\* startTargetCheck(), which startProgramming() calls; sel is the selection
\* at the call
startTargetCheck(sel) ==
  IF current_state = STATE_IDLE
  THEN setState(STATE_CHECKING_TARGET) /\ start_index' = sel
  ELSE UNCHANGED <<current_state, state_timer, prev_state, start_index>>

\* the selection after one long press
cycleFirmwareIndex(index, count) ==
  IF index = INDEX_REBOOT THEN INDEX_WIPE
  ELSE IF index >= count THEN INDEX_REBOOT
  ELSE index + 1

\* the state was IDLE at the top of the pass: the trigger button is read
Input_Trigger ==
  /\ host_pc = "input" /\ current_state = STATE_IDLE
  /\ \E pressed \in BOOLEAN :
       IF pressed THEN startTargetCheck(current_firmware_index)
       ELSE UNCHANGED <<current_state, state_timer, prev_state, start_index>>
  /\ host_pc' = "bootsel"
  /\ UNCHANGED <<current_firmware_index, clock, host_in, host_calls>>
  /\ HostFrame

\* the BOOTSEL event: a short press starts a cycle, a long press is
\* cycleFirmware()
BootselEvents == {"BUTTON_NONE", "BUTTON_SHORT_PRESS", "BUTTON_LONG_PRESS"}

Input_Bootsel ==
  /\ host_pc = "bootsel"
  /\ \E bootsel_event \in BootselEvents :
       IF bootsel_event = "BUTTON_SHORT_PRESS"
       THEN startTargetCheck(current_firmware_index) /\ UNCHANGED current_firmware_index
       ELSE IF bootsel_event = "BUTTON_LONG_PRESS"
       THEN /\ current_firmware_index' = cycleFirmwareIndex(current_firmware_index, firmware_count)
            /\ setState(STATE_CYCLING_FIRMWARE)
            /\ UNCHANGED start_index
       ELSE UNCHANGED <<current_state, state_timer, prev_state, current_firmware_index, start_index>>
  /\ host_pc' = "uart"
  /\ UNCHANGED <<clock, host_in, host_calls>>
  /\ HostFrame

\* a character on the console, if any: a digit up to max_index is
\* setCurrentFirmwareIndex() and startProgramming()
max_index == 9
PICO_ERROR_TIMEOUT == -1

Input_Uart ==
  /\ host_pc = "uart"
  /\ \E index \in UartDigits \cup {PICO_ERROR_TIMEOUT} :
       IF index # PICO_ERROR_TIMEOUT /\ index >= 0 /\ index <= max_index
       THEN current_firmware_index' = index /\ startTargetCheck(index)
       ELSE UNCHANGED <<current_state, state_timer, prev_state, current_firmware_index, start_index>>
  /\ host_pc' = "sleep"
  /\ UNCHANGED <<clock, host_in, host_calls>>
  /\ HostFrame

\* sleep_ms(10) and the time the pass took
Sleep ==
  /\ host_pc = "sleep"
  /\ \E d \in TickSteps : clock' = (clock + d) % ClockMod
  /\ host_pc' = "process"
  /\ UNCHANGED <<current_state, state_timer, prev_state, current_firmware_index, start_index, host_in,
                 host_calls>>
  /\ HostFrame

NextHost ==
  \/ Process_CheckingTarget \/ Process_Programming \/ Process_Error \/ Process_Success
  \/ Process_CyclingFirmware \/ Process_Idle
  \/ Input_None \/ Input_Trigger \/ Input_Bootsel \/ Input_Uart
  \/ Sleep

SpecHost == InitHost /\ [][NextHost]_vars

\* the main loop never stops
SpecHostLive == InitHost /\ [][NextHost]_vars /\ WF_vars(NextHost)

---------------------------------------------------------------------------
(* SpecCycle: cycleFirmware() pressed again and again, for catalogs of 0 to *)
(* MaxCatalog entries and every selection the menu of the catalog has as   *)
(* the first one.                                                          *)
MaxCatalog == 9

Menu(count) == {INDEX_WIPE, INDEX_REBOOT} \cup (1..count)

InitCycle ==
  /\ flash = EmptyFlash
  /\ pc = "host"
  /\ RamInit /\ FlashCtlInit /\ BusInit
  /\ flash0 = EmptyFlash /\ post0 = 0 /\ mut = <<>> /\ ret = NoCall /\ sent = <<>> /\ crc_run = NoCrc /\ erase_run = NoErase
  /\ current_state = STATE_IDLE /\ state_timer = 0 /\ prev_state = STATE_IDLE
  /\ start_index = 0 /\ clock = 0 /\ host_pc = "input" /\ host_in = NoCycle /\ host_calls = <<>>
  /\ \E count \in 0..MaxCatalog : \E first \in Menu(count) :
       /\ current_firmware_index = first
       /\ cycle = [count |-> count, start |-> first, presses |-> 0, seen |-> {first}]

\* StateMachine::cycleFirmware with a catalog of cycle.count entries
CycleFirmware ==
  /\ cycle.presses < cycle.count + 2
  /\ current_firmware_index' = cycleFirmwareIndex(current_firmware_index, cycle.count)
  /\ setState(STATE_CYCLING_FIRMWARE)
  /\ cycle' = [cycle EXCEPT !.presses = @ + 1, !.seen = @ \cup {current_firmware_index'}]
  /\ UNCHANGED <<start_index, clock, host_pc, host_in, host_calls>>
  /\ UNCHANGED <<flashVars, mainVars, i2cVars, busVars, flash0, post0, mut, ret, sent, crc_run, erase_run>>

NextCycle == CycleFirmware

SpecCycle == InitCycle /\ [][NextCycle]_vars

---------------------------------------------------------------------------
(* SpecCrc: the CRC of a drawn buffer, computed in one call and in two     *)
(* pieces cut at a drawn place.                                            *)
MaxCrcLen == 3

CrcBytes == {0, 1, 255}
CrcBuffers == UNION {[1..n -> CrcBytes] : n \in 0..MaxCrcLen}

InitCrc ==
  /\ flash = EmptyFlash
  /\ pc = "crc"
  /\ RamInit /\ FlashCtlInit /\ BusInit /\ HostInit
  /\ flash0 = EmptyFlash /\ post0 = 0 /\ mut = <<>> /\ ret = NoCall /\ sent = <<>> /\ cycle = NoPresses
  /\ \E data \in CrcBuffers : \E cut \in 0..Len(data) :
       crc_run = [NoCrc EXCEPT !.data = data, !.cut = cut]
  /\ erase_run = NoErase

\* crc32(data, len), and crc32_init / crc32_update / crc32_update / crc32_final
\* over the two pieces
CrcBoth ==
  /\ pc = "crc" /\ ~crc_run.done
  /\ LET first  == SubSeq(crc_run.data, 1, crc_run.cut)
         second == SubSeq(crc_run.data, crc_run.cut + 1, Len(crc_run.data))
     IN  crc_run' = [crc_run EXCEPT
                       !.done = TRUE,
                       !.whole = crc32(crc_run.data),
                       !.parts = crc32_final(crc32_update(crc32_update(crc32_init, first), second))]
  /\ UNCHANGED <<flashVars, mainVars, i2cVars, busVars, flash0, post0, mut, ret, sent, cycle, erase_run, hostVars>>

NextCrc == CrcBoth

SpecCrc == InitCrc /\ [][NextCrc]_vars

---------------------------------------------------------------------------
(* SpecErase: the sectors the host erases and the bytes it writes, for a   *)
(* drawn image type, load address and size. The load address is the word   *)
(* the build reads out of the image's metadata.                            *)
sizeof_header == 64

EraseLoadAddrs == {0, 4, SECTOR_SIZE - 3, FW_LOAD_ADDR_APP, 4 * SECTOR_SIZE, 6 * SECTOR_SIZE}
EraseSizes == {1, 2, 3, 4, 5, SECTOR_SIZE - 1, SECTOR_SIZE, SECTOR_SIZE + 1, 2 * SECTOR_SIZE + 1}

\* (size + 3) & ~3
aligned_size(size) == ((size + 3) \div 4) * 4

\* the lengths handed to write_flash, in call order
WriteLengths(fw) ==
  IF fw.fw_type = FW_TYPE_APP THEN <<sizeof_header, aligned_size(fw.size)>>
  ELSE <<aligned_size(fw.size)>>

IsWipe(c) == c[1] = "wipe_sector"
IsWrite(c) == c[1] = "write_flash"

\* the sector numbers of the wipe_sector calls, in call order
ErasedSectors(calls) ==
  LET w == SelectSeq(calls, IsWipe)
  IN  [i \in 1..Len(w) |-> w[i][2] \div SECTOR_SIZE]

\* the addresses the write_flash calls program
WrittenBytes(calls, fw) ==
  LET w == SelectSeq(calls, IsWrite)
      n == WriteLengths(fw)
  IN  UNION {w[i][2] .. (w[i][2] + n[i] - 1) : i \in 1..Len(w)}

InitErase ==
  /\ flash = EmptyFlash
  /\ pc = "host"
  /\ RamInit /\ FlashCtlInit /\ BusInit /\ HostInit
  /\ flash0 = EmptyFlash /\ post0 = 0 /\ mut = <<>> /\ ret = NoCall /\ sent = <<>>
  /\ cycle = NoPresses /\ crc_run = NoCrc
  /\ \E t \in {FW_TYPE_BOOT, FW_TYPE_APP} : \E a \in EraseLoadAddrs : \E n \in EraseSizes :
       erase_run = [NoErase EXCEPT !.type = t, !.load_addr = a, !.size = n]

\* StateMachine::programFirmware of the drawn image, every probe call succeeding
ProgramImage ==
  /\ pc = "host" /\ ~erase_run.done
  /\ LET fw    == [fw_type |-> erase_run.type, data_ok |-> TRUE,
                   size |-> erase_run.size, load_addr |-> erase_run.load_addr]
         calls == programFirmwareCalls(fw, TRUE, TRUE, TRUE).calls
     IN  /\ host_calls' = calls
         /\ erase_run' = [erase_run EXCEPT !.done = TRUE,
                                           !.erased = ErasedSectors(calls),
                                           !.written = WrittenBytes(calls, fw)]
  /\ UNCHANGED <<current_state, state_timer, prev_state, current_firmware_index, start_index,
                 clock, host_pc, host_in>>
  /\ UNCHANGED <<flashVars, mainVars, i2cVars, busVars, flash0, post0, mut, ret, sent, cycle, crc_run>>

NextErase == ProgramImage

SpecErase == InitErase /\ [][NextErase]_vars

---------------------------------------------------------------------------
(* Claims about the validator and the header generator (SpecValidate) *)

\* C1 (as claimed): an image programmed by the host's programFirmware into
\* erased flash passes validate_app at the next boot (post code 0, jump to app).
C1_HostImageValidates == pc = "v_booted" => post_code = 0

\* the six checks, as the specification numbers them
Check1(f) == FlashWord(f, BL_APP_HEADER_ADDR + OFF_MAGIC) # ERASED_WORD
Check2(f) == FlashWord(f, BL_APP_HEADER_ADDR + OFF_MAGIC) = BL_APP_MAGIC
Check3(f) == FlashWord(f, BL_APP_HEADER_ADDR + OFF_ENTRY_POINT) = U32(BL_APP_CODE_ADDR)
Check4(f) == LET size == FlashWord(f, BL_APP_HEADER_ADDR + OFF_APP_SIZE)
             IN  size # U32(0) /\ ~U32Above(size, BL_APP_MAX_SIZE)
Check5(f) == crc32(FlashBytes(f, BL_APP_HEADER_ADDR, HEADER_CRC_LEN))
               = FlashWord(f, BL_APP_HEADER_ADDR + OFF_HEADER_CRC32)
Check6(f) == crc32(FlashBytes(f, BL_APP_CODE_ADDR,
                              U32Low(FlashWord(f, BL_APP_HEADER_ADDR + OFF_APP_SIZE))))
               = FlashWord(f, BL_APP_HEADER_ADDR + OFF_APP_CRC32)
HeaderChecks(f) == Check2(f) /\ Check3(f) /\ Check4(f) /\ Check5(f)

\* C6 (as claimed): for any header, changing one byte of magic, entry_point,
\* app_size or header_crc32 makes validate_app answer INVALID_HEADER.
C6_AnyHeaderFieldByteRejected ==
  (pc = "v_done" /\ mut[1] \in HeaderFieldAddrs) => post_code = POST_INVALID_HEADER

\* C6 (amended): for a header that passed checks 1-5 before the change (the
\* validator answered success or CRC_MISMATCH), changing one byte of magic,
\* entry_point, app_size or header_crc32 makes validate_app answer INVALID_HEADER.
C6_ValidHeaderFieldByteRejected ==
  (pc = "v_done" /\ mut[1] \in HeaderFieldAddrs /\ post0 \in {0, POST_CRC_MISMATCH})
     => post_code = POST_INVALID_HEADER

\* C6 witness: a byte of header_crc32 of an accepted image was changed and the
\* image was rejected with INVALID_HEADER
C6_Witness ==
  /\ pc = "v_done" /\ post0 = 0
  /\ mut[1] >= BL_APP_HEADER_ADDR + OFF_HEADER_CRC32 /\ mut[1] \in HeaderFieldAddrs
  /\ post_code = POST_INVALID_HEADER

\* C7: for a header and application that validate, changing one byte inside the
\* declared application region, the header untouched, gives CRC_MISMATCH.
C7_AppByteGivesCrcMismatch ==
  (pc = "v_done" /\ post0 = 0 /\ mut[1] \in AppRegion(flash0)) => post_code = POST_CRC_MISMATCH

\* C7 witness: the last byte of a two-byte application was changed
C7_Witness ==
  /\ pc = "v_done" /\ post0 = 0
  /\ mut[1] = BL_APP_CODE_ADDR + 1 /\ mut[1] \in AppRegion(flash0)
  /\ FlashBytes(flash, BL_APP_HEADER_ADDR, BL_FLASH_PAGE_SIZE)
       = FlashBytes(flash0, BL_APP_HEADER_ADDR, BL_FLASH_PAGE_SIZE)
  /\ post_code = POST_CRC_MISMATCH

\* C8: the result of validate_app is that of the first failing check in the
\* order 1..6: what validate_app returned for the flash it was run on is
\* NO_IMAGE iff check 1 fails, INVALID_HEADER iff check 1 passes and one of
\* 2-5 fails, CRC_MISMATCH iff 1-5 pass and check 6 fails, success otherwise.
ResultByOrder(result, f) ==
  /\ result = POST_NO_APP <=> ~Check1(f)
  /\ result = POST_INVALID_HEADER <=> (Check1(f) /\ ~HeaderChecks(f))
  /\ result = POST_CRC_MISMATCH <=> (Check1(f) /\ HeaderChecks(f) /\ ~Check6(f))
  /\ result = 0 <=> (Check1(f) /\ HeaderChecks(f) /\ Check6(f))

C8_FirstFailingCheckDecides ==
  /\ pc = "v_checked" => ResultByOrder(post0, flash)
  /\ pc \in {"v_done", "v_booted"} => ResultByOrder(post_code, flash)

\* C8 witness: an erased header answered NO_IMAGE and, with one byte of it
\* changed, INVALID_HEADER
C8_Witness ==
  /\ pc = "v_done"
  /\ post0 = POST_NO_APP
  /\ post_code = POST_INVALID_HEADER

---------------------------------------------------------------------------
(* Claims about the bootloader in update mode and at boot (Spec) *)

\* the bus event with index i of the history led to a dispatch
Dispatched(i) == \E n \in 1..Len(dispatched) : dispatched[n][2] = i

\* C2 (as claimed): when the controller writes ERASE to the command register
\* and then, while the status is BUSY and without having read the status as
\* IDLE, writes WRITE, at most one of the two is dispatched: the command
\* posted while BUSY starts no second action.
C2_AtMostOneDispatched ==
  \A i, j \in 1..Len(posted) :
    ( /\ i < j
      /\ posted[i][1] = "cmd" /\ posted[i][2] = BL_CMD_ERASE
      /\ posted[j][1] = "cmd" /\ posted[j][2] = BL_CMD_WRITE
      /\ posted[j][3] = BL_STATUS_BUSY
      /\ \A k \in (i + 1)..(j - 1) : posted[k][1] # "idle" )
    => ~(Dispatched(i) /\ Dispatched(j))

\* C3 (as claimed): once the application has written the update request to
\* the boot-state page and reset the chip, the bootloader stays in update
\* mode: the application is not running while the request stands.
C3_TriggerKeepsUpdateMode == pc = "app" => ~UpdateRequested(flash)

\* C4: control is with the application, or about to be handed to it, only
\* while the flash passes all six validator checks.
C4_JumpOnlyIntoValidImage ==
  pc \in {"delay", "app"} => (Check1(flash) /\ HeaderChecks(flash) /\ Check6(flash))

\* C4 witness: the bootloader jumped from update mode, after a WRITE that
\* completed the image
C4_Witness ==
  /\ pc = "app"
  /\ Len(dispatched) = 1 /\ dispatched[1][1] = BL_CMD_WRITE
  /\ bl_status = BL_STATUS_SUCCESS

\* C5: no flash byte of the bootloader region [0, 0x0C00) changes: flash
\* lists the pages that differ from their content at reset, and none of them
\* lies below the boot-state page.
C5_BootloaderRegionUntouched ==
  \A p \in DOMAIN flash : p * BL_FLASH_PAGE_SIZE >= BL_BOOTLOADER_SIZE

\* C5 witness: ERASE and then WRITE were executed and the WRITE succeeded
C5_Witness ==
  /\ Len(dispatched) = 2
  /\ dispatched[1][1] = BL_CMD_ERASE /\ dispatched[2][1] = BL_CMD_WRITE
  /\ pc = "loop" /\ bl_status = BL_STATUS_SUCCESS
  /\ flash # EmptyFlash

---------------------------------------------------------------------------
(* Claims about the flash driver (SpecFlash) *)

\* C9: bl_flash_erase_page and bl_flash_write_page called with an address
\* below the protected boundary or not 64-byte aligned return failure, do not
\* unlock, set neither PER nor PG, start no flash operation and change no
\* byte; a controller that was locked and idle before is locked and idle after.
C9_RejectedAddressNoSideEffect ==
  (ret.op \in {"erase_page", "write_page"} /\ (ret.below \/ ret.misaligned)) =>
     /\ ret.ok = 0
     /\ ret.unlocks = 0 /\ ret.modes = 0 /\ ret.ops = 0
     /\ ret.mem_kept
     /\ ~flash_per /\ ~flash_pg
     /\ flash_locked = ret.locked0 /\ flash_bsy = ret.bsy0
     /\ (ret.locked0 /\ ~ret.bsy0) => (flash_locked /\ ~flash_bsy)

\* C9 witness: a page write to the last bootloader page was refused with the
\* controller locked and idle
C9_Witness ==
  /\ ret.op = "write_page" /\ ret.below /\ ~ret.misaligned
  /\ ret.ok = 0 /\ ret.locked0 /\ ~ret.bsy0
  /\ flash_locked /\ ~flash_bsy

LockingCalls == {"erase_app", "write_page", "clear_boot_state"}

Refused == ret.below \/ ret.misaligned \/ ret.past_end

---------------------------------------------------------------------------
(* Claims about the host programmer (SpecHost) *)

\* the last process() step ran the PROGRAMMING case
Programmed == host_in.step = "program"

\* the calls end with lock_flash, reset, resume
EndsWithCleanUp(calls) ==
  /\ Len(calls) >= Len(CleanUp)
  /\ SubSeq(calls, Len(calls) - Len(CleanUp) + 1, Len(calls)) = CleanUp

\* the position of the last call of that name, 0 when there is none
LastCall(calls, name) ==
  LET is == {i \in 1..Len(calls) : calls[i][1] = name}
  IN  IF is = {} THEN 0 ELSE CHOOSE i \in is : \A j \in is : j <= i

\* C12: every programming cycle for a firmware image ends with lock_flash,
\* reset, resume before it returns, on every exit path, also when halt()
\* fails and when the image has no data or size 0.
C12_CleanupOnEveryExit ==
  (Programmed /\ host_in.sel \in 1..firmware_count) => EndsWithCleanUp(host_calls)

\* C13: when a readback verification fails, the cycle still calls
\* lock_flash, reset and resume after the verification and reports failure:
\* the last halt is followed by resume, the last unlock_flash by lock_flash.
C13_VerifyFailureStillCleansUp ==
  (Programmed /\ host_in.halt_ok /\ ~(host_in.header_ok /\ host_in.firmware_ok))
    => /\ ~host_in.ok
       /\ EndsWithCleanUp(host_calls)
       /\ LastCall(host_calls, "verify_flash") < LastCall(host_calls, "lock_flash")
       /\ LastCall(host_calls, "halt") < LastCall(host_calls, "resume")
       /\ LastCall(host_calls, "unlock_flash") < LastCall(host_calls, "lock_flash")

\* the image readback of a firmware entry failed and the state is ERROR
C13_Witness ==
  /\ Programmed /\ host_in.halt_ok /\ ~host_in.firmware_ok
  /\ current_state = STATE_ERROR
  /\ LastCall(host_calls, "verify_flash") > 0
  /\ EndsWithCleanUp(host_calls)

\* C14: a PROGRAMMING step with the wipe selection always ends with the
\* target reset and resumed, whether or not the target could be halted.
C14_WipeAlwaysResetsAndResumes ==
  (Programmed /\ host_in.sel = INDEX_WIPE)
    => /\ Len(host_calls) >= 2
       /\ SubSeq(host_calls, Len(host_calls) - 1, Len(host_calls)) = <<<<"reset", 0>>, <<"resume", 0>>>>

\* C15: a CHECKING_TARGET step in which a status read gave 0xFFFFFFFF,
\* 0x00000000 or ALLHALTED together with ALLRUNNING ends in ERROR, with
\* that read as its last one and every earlier test within the timeout;
\* the step ends in PROGRAMMING only when its last read showed ALLHALTED
\* without ALLRUNNING.  PROGRAMMING is entered from nowhere else.  (The step
\* is process() in CHECKING_TARGET; a long press handled in the pass that
\* started the check leaves CHECKING_TARGET without any status read.)
PollsRead == {i \in 1..Len(host_calls) : host_calls[i][1] = "get_dmstatus"}

C15_InvalidStatusGivesError ==
  [][((host_pc = "process" /\ current_state = STATE_CHECKING_TARGET)
        \/ (current_state' # current_state /\ current_state' = STATE_PROGRAMMING))
       => LET ps   == host_in'.polls
              n    == Cardinality({i \in 1..Len(host_calls') : host_calls'[i][1] = "get_dmstatus"})
          IN  /\ current_state = STATE_CHECKING_TARGET
              /\ host_in'.step = "check"
              /\ current_state' \in {STATE_ERROR, STATE_PROGRAMMING}
              /\ n >= 1 /\ n <= Len(ps)
              /\ \A i \in 1..n : InvalidStatus(ps[i][1]) => (i = n /\ current_state' = STATE_ERROR)
              /\ \A i \in 1..(n - 1) : ps[i][2] <= HALT_TIMEOUT_MS
              /\ current_state' = STATE_PROGRAMMING => (ALLHALTED(ps[n][1]) /\ ~ALLRUNNING(ps[n][1]))]_vars

\* a valid status without ALLHALTED was read, then 0xFFFFFFFF: ERROR
C15_Witness ==
  /\ current_state = STATE_ERROR /\ host_in.step = "check"
  /\ Cardinality(PollsRead) = 2
  /\ host_in.polls[1][1] = "other" /\ host_in.polls[2][1] = "ones"

---------------------------------------------------------------------------
(* Claims about the host programmer's dwell times (SpecHostLive) *)

\* C16: from SUCCESS the orchestrator returns to IDLE by itself once 3000 ms
\* have passed, from ERROR once 2000 ms have passed: it leaves either state
\* only for IDLE and not before the dwell time is over, process() does not
\* leave it there once the time is over, and as long as the main loop runs
\* it does not stay in either state forever.
Dwell(state) == IF state = STATE_SUCCESS THEN SUCCESS_DWELL_MS ELSE ERROR_DWELL_MS

C16_DwellThenIdle ==
  /\ [][(current_state \in {STATE_SUCCESS, STATE_ERROR} /\ current_state' # current_state)
          => /\ current_state' = STATE_IDLE
             /\ Elapsed(clock, state_timer) >= Dwell(current_state)]_vars
  /\ []((current_state \in {STATE_SUCCESS, STATE_ERROR} /\ host_pc = "input")
          => Elapsed(clock, state_timer) < Dwell(current_state))
  /\ [](current_state = STATE_SUCCESS => <>(current_state = STATE_IDLE))
  /\ [](current_state = STATE_ERROR => <>(current_state = STATE_IDLE))

\* process() has just returned from SUCCESS to IDLE
C16_Witness ==
  /\ current_state = STATE_IDLE /\ prev_state = STATE_SUCCESS
  /\ host_pc = "input" /\ state_timer = clock

---------------------------------------------------------------------------
(* Claims about polling the status register (SpecPoll) *)

\* a command was dispatched and execute_command has returned
CommandFinished == dispatched # <<>> /\ pc \in {"status", "loop"}

\* the reads of the status register so far that gave BL_STATUS_IDLE
IdleReads == Cardinality({i \in 1..Len(posted) : posted[i][1] = "idle"})

\* C17: after a dispatched command has finished, a controller that keeps
\* reading the status register eventually reads BL_STATUS_IDLE (0x00): one
\* more read that gives idle follows.
C17_PollUntilIdleTerminates ==
  \A n \in 0..MaxTxn : [](CommandFinished /\ IdleReads = n => <>(IdleReads > n))

---------------------------------------------------------------------------
(* Claims about register writes (SpecRegs) *)

\* C18: in a write transaction the first byte sets the register pointer and
\* each following byte is written at the pointer, which then advances by
\* one: pointer 0xF9 and two bytes set the low and the high byte of the
\* page address, pointer 0xFC and four bytes set the four bytes of the
\* expected CRC, low byte first.
C18_WritesAutoIncrement ==
  /\ (Len(sent) >= 1 /\ bus_phase = "write") => reg_addr = (sent[1] + Len(sent) - 1) % 256
  /\ (Len(sent) = 3 /\ sent[1] = REG_BL_ADDR_L) => page_addr = sent[2] + 256 * sent[3]
  /\ (Len(sent) = 5 /\ sent[1] = REG_BL_CRC_0) => expected_crc = <<sent[2], sent[3], sent[4], sent[5]>>

---------------------------------------------------------------------------
(* Claims about the command switch (Spec) *)
KnownCommands == {BL_CMD_ERASE, BL_CMD_WRITE, BL_CMD_VERIFY, BL_CMD_BOOT}

\* C19 (as claimed): every byte written to the command register that is not
\* ERASE, WRITE, VERIFY or BOOT, the value 0 included, is dispatched and ends
\* with ERROR / INVALID_CMD: when the first command byte written is such a
\* byte and the main loop is at the top of its loop with nothing pending,
\* the byte has been dispatched and the status is ERROR / INVALID_CMD.
C19_UnknownByteIsDispatched ==
  \A i \in 1..Len(posted) :
    ( /\ posted[i][1] = "cmd" /\ posted[i][2] \notin KnownCommands
      /\ \A k \in 1..Len(posted) : posted[k][1] = "cmd" => k = i
      /\ bus_phase = "idle" /\ pc = "loop" /\ pending_command = 0 )
    => (Dispatched(i) /\ bl_status = BL_STATUS_ERROR /\ bl_error = BL_ERR_INVALID_CMD)

\* C19 (amended): every command the main loop dispatches that is not ERASE,
\* WRITE, VERIFY or BOOT ends with ERROR / INVALID_CMD and leaves the flash
\* and its controller as they were; the value 0 raises no pending command:
\* while the command register holds 0 the main loop fetches nothing.
C19_UnknownDispatchedGivesInvalidCmd ==
  /\ [][(pc = "busy" /\ cmd \notin KnownCommands) => UNCHANGED flashVars]_vars
  /\ [][(pc = "result" /\ pc' = "status" /\ cmd \notin KnownCommands)
          => (bl_status' = BL_STATUS_ERROR /\ bl_error' = BL_ERR_INVALID_CMD /\ UNCHANGED flashVars)]_vars
  /\ [][(pc = "loop" /\ pending_command = 0) => pc' # "read"]_vars

C19_Witness ==
  /\ pc = "status" /\ cmd = BL_CMD_UNKNOWN
  /\ bl_status = BL_STATUS_ERROR /\ bl_error = BL_ERR_INVALID_CMD
  /\ \E i \in 1..Len(posted) : posted[i][1] = "cmd" /\ posted[i][2] = 0

\* the header checks of validate_app: magic, entry point, size, header CRC
HeaderValid(f) ==
  LET size == FlashWord(f, BL_APP_HEADER_ADDR + OFF_APP_SIZE)
  IN  /\ FlashWord(f, BL_APP_HEADER_ADDR + OFF_MAGIC) = BL_APP_MAGIC
      /\ FlashWord(f, BL_APP_HEADER_ADDR + OFF_ENTRY_POINT) = U32(BL_APP_CODE_ADDR)
      /\ size # U32(0) /\ ~U32Above(size, BL_APP_MAX_SIZE)
      /\ crc32(FlashBytes(f, BL_APP_HEADER_ADDR, HEADER_CRC_LEN))
           = FlashWord(f, BL_APP_HEADER_ADDR + OFF_HEADER_CRC32)

\* C20 (as claimed): a VERIFY command ends with ERROR / APP_INVALID whenever
\* the application header in flash is not valid: wrong magic, wrong entry
\* point, size zero or above the maximum, or header CRC mismatch.
C20_VerifyRejectsInvalidHeader ==
  (pc = "status" /\ cmd = BL_CMD_VERIFY /\ ~HeaderValid(flash))
    => (bl_status = BL_STATUS_ERROR /\ bl_error = BL_ERR_APP_INVALID)

---------------------------------------------------------------------------
(* Claims about the programmer's input handling (SpecHost) *)

\* the selections the menu has: wipe, the catalog entries, reboot
MenuEntries == {INDEX_WIPE, INDEX_REBOOT} \cup (1..firmware_count)

\* C21: a digit received over serial that names no menu entry is rejected:
\* the selection is left unchanged and no cycle is started, so the
\* selection names a menu entry at all times and no cycle runs with one
\* that does not.
C21_InvalidDigitRejected ==
  /\ current_firmware_index \in MenuEntries
  /\ current_state \in {STATE_CHECKING_TARGET, STATE_PROGRAMMING} => start_index \in MenuEntries

---------------------------------------------------------------------------
(* Claims about cycling through the menu (SpecCycle) *)

\* C22: for every catalog size, (catalog size + 2) presses of cycleFirmware
\* go through exactly (catalog size + 2) distinct selections, wipe, every
\* catalog entry and reboot, and bring the selection back to where it was.
C22_CycleVisitsEveryEntry ==
  cycle.presses = cycle.count + 2
    => /\ current_firmware_index = cycle.start
       /\ cycle.seen = Menu(cycle.count)
       /\ Cardinality(cycle.seen) = cycle.count + 2

---------------------------------------------------------------------------
(* Claims about the CRC (SpecCrc) *)

---------------------------------------------------------------------------
(* Claims about the hand-over of commands and the status register (Spec) *)

\* the dispatches of the bus event with index i of the history
DispatchesOf(i) == {n \in 1..Len(dispatched) : dispatched[n][2] = i}

\* C24: a command byte the interrupt handler stored is never lost by the
\* main loop: when a non-zero command was stored, no command was written
\* after it and the main loop is back at the top of its loop with nothing
\* pending, the command has been dispatched exactly once, wherever in the
\* main loop's test, read and clear of the slot the interrupt came.
C24_CommandNeverLost ==
  \A i \in 1..Len(posted) :
    ( /\ posted[i][1] = "cmd" /\ posted[i][2] # 0
      /\ LastPost(posted) = i
      /\ pc = "loop" /\ pending_command = 0 /\ bus_phase = "idle" )
    => Cardinality(DispatchesOf(i)) = 1

\* a step in which the controller is sent the status register
StatusRead ==
  \/ PollStatus
  \/ (I2C_AddrRead /\ reg_addr = REG_BL_STATUS)
  \/ (I2C_TxByte /\ reg_addr = REG_BL_STATUS)

\* C25: once the interrupt handler has captured a write to the command
\* register, a read of the status register returns BUSY or the final status
\* of that command: while the captured command waits for the main loop, a
\* read does not return the SUCCESS or ERROR of the command before it.
C25_NoStaleStatus ==
  [][(StatusRead /\ pending_command # 0 /\ pc = "loop")
       => bus_read'[2] \notin {BL_STATUS_SUCCESS, BL_STATUS_ERROR}]_vars

\* C26: in update mode the bootloader transfers control to the application
\* only after a BOOT command has been dispatched: when the main loop is on
\* its way to the jump, the command dispatched last is BOOT.
C26_JumpOnlyAfterBoot ==
  pc = "delay" => (dispatched # <<>> /\ dispatched[Len(dispatched)][1] = BL_CMD_BOOT)

---------------------------------------------------------------------------
(* Claims about a WRITE and the bus traffic during it (SpecBusy) *)

\* C27: the 64 bytes a WRITE command programs, and the bytes its readback
\* is compared with, are the page-buffer contents at the moment the command
\* was dispatched: when a WRITE ends with SUCCESS, the page it wrote holds
\* the buffer as it was at the dispatch, whatever the interrupt handler
\* stored in the data register while the status was BUSY.
C27_WriteProgramsBufferAtDispatch ==
  [][(pc = "result" /\ pc' = "status" /\ cmd = BL_CMD_WRITE /\ bl_status' = BL_STATUS_SUCCESS)
       => FlashBytes(flash', WriteAddr(page_addr), BL_FLASH_PAGE_SIZE) = dispatched[Len(dispatched)][3]]_vars

---------------------------------------------------------------------------
(* Claims about input during a cycle (SpecHost) *)

\* C28: input changes the state only when the state is IDLE at the moment
\* the input is applied: CYCLING_FIRMWARE is entered only from IDLE, and a
\* cycle that has entered CHECKING_TARGET goes on to PROGRAMMING or ERROR,
\* and from PROGRAMMING to SUCCESS or ERROR, with no input diverting it.
C28_InputOnlyWhenIdle ==
  [][/\ (current_state' = STATE_CYCLING_FIRMWARE /\ current_state # STATE_CYCLING_FIRMWARE)
          => current_state = STATE_IDLE
     /\ (current_state = STATE_CHECKING_TARGET /\ current_state' # STATE_CHECKING_TARGET)
          => current_state' \in {STATE_PROGRAMMING, STATE_ERROR}
     /\ (current_state = STATE_PROGRAMMING /\ current_state' # STATE_PROGRAMMING)
          => current_state' \in {STATE_SUCCESS, STATE_ERROR}]_vars

\* C29: the selection acted on in PROGRAMMING is the selection that was
\* current when the cycle left IDLE.
C29_SelectionFixedAtStart ==
  (host_in.step = "program" /\ current_state \in {STATE_SUCCESS, STATE_ERROR})
    => host_in.sel = start_index

---------------------------------------------------------------------------
(* Claims about the status during a command (SpecPoll) *)

\* C30: from the dispatch of a command until its action has finished every
\* read of the status register returns BUSY; the status becomes SUCCESS or
\* ERROR only when the action has completed, and it is BUSY before the
\* action touches the flash.
C30_BusyWhileExecuting ==
  /\ [](pc \in {"clrerr", "busy", "result"} => bl_status = BL_STATUS_BUSY)
  /\ [][(StatusRead /\ pc \in {"clrerr", "busy", "result"}) => bus_read'[2] = BL_STATUS_BUSY]_vars
  /\ [][(bl_status' # bl_status /\ bl_status' \in {BL_STATUS_SUCCESS, BL_STATUS_ERROR})
          => (pc = "result" /\ pc' = "status" /\ bl_status = BL_STATUS_BUSY)]_vars
  /\ [][(pc \in UpdateModePcs /\ flashVars' # flashVars)
          => (pc = "busy" /\ bl_status = BL_STATUS_BUSY)]_vars

\* C30 witness: the status was read as BUSY while an ERASE was under way,
\* and the ERASE has now ended with SUCCESS and the application erased
C30_Witness ==
  /\ pc = "status" /\ cmd = BL_CMD_ERASE
  /\ bus_read = <<REG_BL_STATUS, BL_STATUS_BUSY>>
  /\ bl_status = BL_STATUS_SUCCESS
  /\ flash = EmptyFlash

---------------------------------------------------------------------------
(* Claims about the status and error registers (Spec) *)

\* C31: whenever a bus read can observe the registers (the bootloader is in
\* update mode, at any point of its main program), the status register
\* holds ERROR if and only if the error register holds a non-zero code.
C31_ErrorIffErrorCode ==
  pc \in UpdateModePcs => ((bl_status = BL_STATUS_ERROR) <=> (bl_error # BL_ERR_NONE))

\* C32: a byte written to the command register is only recorded in the
\* pending slot.  No invocation of the interrupt handlers changes the flash,
\* its controller, the status or the error register; in update mode these
\* change only in the steps of execute_command, which the main loop runs
\* after it has taken the command out of the slot.
HandlerStep ==
  I2C_AddrWrite \/ I2C_RxByte \/ I2C_AddrRead \/ I2C_TxByte \/ I2C_Stop \/ I2C_Error

C32_CommandWriteOnlyRecords ==
  /\ [][HandlerStep => UNCHANGED <<flashVars, bl_status, bl_error>>]_vars
  /\ [][(I2C_RxByte /\ addr_received = 1 /\ reg_addr = REG_BL_CMD)
          => /\ Len(posted') = Len(posted) + 1
             /\ pending_command' = posted'[Len(posted')][2]
             /\ UNCHANGED <<dispatched, mainVars>>]_vars
  /\ [][(pc \in UpdateModePcs /\ <<flashVars, bl_status, bl_error>>' # <<flashVars, bl_status, bl_error>>)
          => (pc \in {"exec", "clrerr", "busy", "result"} /\ pc' # pc)]_vars

\* C32 witness: ERASE has been written to the command register and sits in
\* the slot; nothing was dispatched, the status is IDLE, the flash untouched
C32_Witness ==
  /\ pending_command = BL_CMD_ERASE /\ posted # <<>> /\ dispatched = <<>>
  /\ pc = "loop" /\ bl_status = BL_STATUS_IDLE /\ bl_error = BL_ERR_NONE
  /\ flash \in BootInputs /\ flash_locked

---------------------------------------------------------------------------
(* Claims about the end of a command (SpecPoll) *)

---------------------------------------------------------------------------
(* Claims about the target check (SpecHost) *)

\* C34: a process() call in CHECKING_TARGET ends in that call, for every
\* sequence of target-status values: it leaves CHECKING_TARGET for
\* PROGRAMMING or ERROR, every status read but the last one was followed
\* by a test within the timeout (so the last read starts no later than the
\* timeout and one 1 ms sleep), and the next process() call does not find
\* the state CHECKING_TARGET again.
C34_CheckEndsInOneCall ==
  /\ [][(host_pc = "process" /\ current_state = STATE_CHECKING_TARGET)
          => /\ current_state' \in {STATE_PROGRAMMING, STATE_ERROR}
             /\ host_pc' = "input"
             /\ LET ps == host_in'.polls
                    n  == Cardinality({i \in 1..Len(host_calls') : host_calls'[i][1] = "get_dmstatus"})
                IN  /\ n >= 1 /\ n = Len(ps)
                    /\ \A i \in 1..(n - 1) : ps[i][2] <= HALT_TIMEOUT_MS]_vars
  /\ []((host_pc = "process" /\ current_state = STATE_CHECKING_TARGET) => host_in.step # "check")

\* C34 witness: the target answered without ALLHALTED until the timeout was
\* over: the call ended in ERROR after the first test past 100 ms
C34_Witness ==
  /\ current_state = STATE_ERROR /\ host_in.step = "check"
  /\ host_in.polls = <<<<"other", HALT_TIMEOUT_MS>>, <<"other", HALT_TIMEOUT_MS + 1>>>>

---------------------------------------------------------------------------
(* Claims about the WRITE command (SpecBusy, Spec) *)

\* C35: a WRITE ends without an error code, and so with SUCCESS, only if
\* the 64 flash bytes at the computed page address equal the 64 bytes that
\* were to be written (the page buffer the command was dispatched with);
\* when the page was programmed and a byte of it differs from these, the
\* command ends with ERROR / FLASH_WRITE.
C35_SuccessOnlyIfPageEqualsData ==
  [][(pc = "busy" /\ pc' = "result" /\ cmd = BL_CMD_WRITE)
       => LET page == FlashBytes(flash', WriteAddr(page_addr), BL_FLASH_PAGE_SIZE)
              data == dispatched[Len(dispatched)][3]
          IN  /\ bl_error' = BL_ERR_NONE => page = data
              /\ (flash' # flash /\ page # data) => bl_error' = BL_ERR_FLASH_WRITE]_vars

\* C36: a WRITE whose page address is not a multiple of 64, or whose
\* address (application-header base + page address) is at or beyond the end
\* of flash, ends with ERROR / INVALID_ADDR and leaves the flash and its
\* controller untouched; a WRITE that is accepted changes no page but the
\* addressed one, which lies in [application-header base, end of flash).
C36_WriteAddressChecked ==
  /\ [][(pc = "busy" /\ pc' = "result" /\ cmd = BL_CMD_WRITE)
          => LET flash_addr == BL_APP_HEADER_ADDR + page_addr
                 refused    == page_addr % BL_FLASH_PAGE_SIZE # 0 \/ flash_addr >= BL_FLASH_END
             IN  /\ refused => (bl_error' = BL_ERR_INVALID_ADDR /\ UNCHANGED flashVars)
                 /\ ~refused =>
                      /\ bl_error' # BL_ERR_INVALID_ADDR
                      /\ flash_addr >= BL_APP_HEADER_ADDR /\ flash_addr < BL_FLASH_END
                      /\ \A q \in PageIdx : q # flash_addr \div BL_FLASH_PAGE_SIZE
                                              => PageAt(flash', q) = PageAt(flash, q)]_vars
  /\ [][(pc = "result" /\ pc' = "status" /\ cmd = BL_CMD_WRITE /\ bl_error = BL_ERR_INVALID_ADDR)
          => (bl_status' = BL_STATUS_ERROR /\ UNCHANGED <<flashVars, bl_error>>)]_vars

\* C36 witness: a WRITE with page address 1 has ended with ERROR /
\* INVALID_ADDR, the flash as it was at reset and locked
C36_Witness ==
  /\ pc = "status" /\ cmd = BL_CMD_WRITE /\ page_addr = 1
  /\ bl_status = BL_STATUS_ERROR /\ bl_error = BL_ERR_INVALID_ADDR
  /\ flash \in BootInputs /\ flash_locked

---------------------------------------------------------------------------
(* Claims about register reads (SpecRead) *)
MappedRegisters ==
  {REG_HW_TYPE, REG_FW_VER_MAJOR, REG_FW_VER_MINOR, REG_BL_VERSION, REG_BL_STATUS, REG_BL_ERROR,
   REG_BL_CRC_0, REG_BL_CRC_1, REG_BL_CRC_2, REG_BL_CRC_3}

\* C37: in a read transaction the i-th byte transmitted after the pointer
\* was set to r is the value of register (r + i - 1) mod 256, the pointer
\* advances by one (mod 256) with every byte, and a register that is not
\* mapped reads 0xFF.
C37_ReadsAutoIncrement ==
  (Len(sent) >= 1 /\ bus_phase # "idle") =>
     /\ reg_addr = (sent[1] + Len(sent) - 1) % 256
     /\ \A i \in 2..Len(sent) :
          LET reg == (sent[1] + i - 2) % 256
          IN  /\ sent[i] = read_register(reg)
              /\ reg \notin MappedRegisters => sent[i] = 255

\* C37 witness: two bytes read from pointer 0xFF: CRC byte 3, then
\* register 0x00 with the update-mode flag set, the pointer at 0x01
C37_Witness ==
  /\ bus_phase = "read" /\ Len(sent) = 3 /\ sent[1] = REG_BL_CRC_3
  /\ sent[2] = expected_crc[4] /\ sent[3] >= BL_MODE_FLAG /\ reg_addr = 1

---------------------------------------------------------------------------
(* Claims about the host's erase and write ranges (SpecErase) *)

SectorsOf(bytes) == {a \div SECTOR_SIZE : a \in bytes}
SeqRange(q) == {q[i] : i \in 1..Len(q)}

\* C38 (as claimed): for every load address and every size of at least 1,
\* the sectors the host erases are exactly the sectors its writes touch:
\* every written byte, padding included, lies in an erased sector, and every
\* erased sector holds at least one written byte.
C38_ErasedEqualsTouched ==
  erase_run.done => SeqRange(erase_run.erased) = SectorsOf(erase_run.written)

Occurrences(q, x) == Cardinality({i \in 1..Len(q) : q[i] = x})

\* the sectors of the header range and of the code range of the drawn image
HeaderAndCodeSectors ==
  SectorsOf((FW_APP_HEADER_ADDR .. (FW_APP_HEADER_ADDR + sizeof_header - 1))
            \cup (erase_run.load_addr .. (erase_run.load_addr + erase_run.size - 1)))

\* every wipe_sector call comes before every write_flash call, and the two
\* writes are the header and then the code
ErasesThenHeaderThenCode(calls) ==
  /\ \A i, j \in 1..Len(calls) : (IsWipe(calls[i]) /\ IsWrite(calls[j])) => i < j
  /\ SelectSeq(calls, IsWrite)
       = <<<<"write_flash", FW_APP_HEADER_ADDR>>, <<"write_flash", erase_run.load_addr>>>>

\* C39 (as claimed): on the application-type write path every sector of the
\* header range and of the code range is erased exactly once, every erase
\* comes before the first write, the header is written before the code, and
\* no erase follows a write.
C39_EraseOnceHeaderBeforeCode ==
  (erase_run.done /\ erase_run.type = FW_TYPE_APP) =>
    /\ \A sector \in HeaderAndCodeSectors : Occurrences(erase_run.erased, sector) = 1
    /\ ErasesThenHeaderThenCode(host_calls)


---------------------------------------------------------------------------
(* Claims about the page buffer (Spec) *)

\* C40: the page index stays within 0..64 and the page buffer keeps its 64
\* cells; a byte written to the data register is stored at the index, which
\* then advances by one, while the index is below 64, and is dropped with
\* buffer and index unchanged once the index is 64; the address match of a
\* write transaction sets the index to 0.
C40_PageIndexWithinBuffer ==
  /\ [](page_index \in 0..PAGE_BUFFER_SIZE /\ DOMAIN page_buffer = 1..PAGE_BUFFER_SIZE)
  /\ [][(I2C_RxByte /\ addr_received = 1 /\ reg_addr = REG_BL_DATA) =>
          IF page_index < PAGE_BUFFER_SIZE
          THEN /\ page_index' = page_index + 1
               /\ \A i \in 1..PAGE_BUFFER_SIZE : i # page_index + 1 => page_buffer'[i] = page_buffer[i]
          ELSE UNCHANGED <<page_buffer, page_index>>]_vars
  /\ [][I2C_AddrWrite => page_index' = 0]_vars

\* C40 witness: a write transaction to the data register that has sent 65
\* bytes, the index at 64
C40_Witness ==
  /\ bus_phase = "write" /\ addr_received = 1 /\ reg_addr = REG_BL_DATA
  /\ bus_bytes = PAGE_BUFFER_SIZE + 1 /\ page_index = PAGE_BUFFER_SIZE

=========================================================================
